---- MODULE Spec2Model ----
(***************************************************************************)
(* A model of the definition collector of ra_hir_def                       *)
(* (crates/ra_hir_def/src/nameres/collector.rs): DefCollector::collect,    *)
(* the fixed-point loop over import resolution and macro expansion, the    *)
(* per-module item walk of ModCollector, and update / update_recursive,    *)
(* which merges resolutions into a scope and replays them along glob       *)
(* edges.                                                                  *)
(*                                                                         *)
(* The crate being collected is the input.  Its raw items are supplied one *)
(* at a time: each Collect* action is ModCollector::collect handling the   *)
(* next item of the list it walks, the item drawn from a catalogue.  The   *)
(* output of a macro expansion is supplied the same way (the expander is   *)
(* an opaque function of the call, its arguments included).                *)
(***************************************************************************)
EXTENDS Integers, Sequences, FiniteSets, TLC

\* ---------------------------------------------------------------- bounds

\* Each specification below collects every crate whose items, in source and
\* in macro expansions together, number at most its bound, the items drawn
\* from its catalogue; MaxModules bounds the modules, the root included.
MaxModules == 3
MaxItemsScopes == 3
MaxItemsImports == 3
MaxItemsMacros == 3
\* The crates of SpecStuck have at most this many items in the root's list.
MaxItemsStuck == 3
\* The crates of SpecChain nest at most this many modules, the root included.
MaxChainModules == 103
\* The crates of SpecModules have at most this many items.
MaxItemsModules == 4
\* The crates of SpecSeed have at most this many dependencies.
MaxDeps == 3
\* The crates of SpecCancel have at most this many items in the root's list
\* and this many calls of a macro in all.
MaxItemsCancel == 3
MaxCallsCancel == 3
\* Calls made on the Expander in a run of SpecExpander, at most.
MaxExpanderOps == 5
\* Macro calls told apart in one file.
MaxCallsPerFile == 2

\* The cap on outer iterations of the fixed-point loop.
StuckLimit == 1000
\* The cap on the recursion depth of update_recursive.
GlobDepthLimit == 100

\* ----------------------------------------------------------------- names

\* Names of items, modules, macros and aliases of the crate.
Names == {"a", "b"}
\* The name under which the crate's one dependency is known.
DepName == "dep"
AllNames == Names \cup {DepName}
NoName == "-"

\* -------------------------------------------------------------- entities

\* ModuleDefId / MacroDefId: k is the kind, id the identity.
\*   "module"  a module of this crate (id: index in the arena)
\*   "xmodule" a module of the dependency (id: index in its arena)
\*   "def"     a function, struct, trait, ... of this crate
\*   "enum"    an enum of this crate, "variant" its variant
\*   "macro"   a macro_rules! macro of this crate
\*   "xdef", "xmacro"  items and macros of the dependency
Entity(k, id) == [k |-> k, id |-> id]
None == Entity("none", 0)
LocalModule(m) == Entity("module", m)

NoImport == 0

\* PerNs: one optional entity per namespace.
PerNs(t, v, m) == [types |-> t, values |-> v, macros |-> m]
PerNsNone == PerNs(None, None, None)
PerNsTypes(t) == PerNs(t, None, None)
PerNsValues(v) == PerNs(None, v, None)
PerNsBoth(t, v) == PerNs(t, v, None)
PerNsMacros(m) == PerNs(None, None, m)
PerNsIsNone(p) == p.types = None /\ p.values = None /\ p.macros = None
Opt(x, y) == IF x # None THEN x ELSE y
PerNsOr(p, q) ==
    PerNs(Opt(p.types, q.types), Opt(p.values, q.values), Opt(p.macros, q.macros))

Namespaces == {"types", "values", "macros"}
Slot(p, ns) ==
    IF ns = "types" THEN p.types ELSE IF ns = "values" THEN p.values ELSE p.macros

\* Resolution: what a scope holds under a name.  present says whether the
\* scope's map has an entry under the name at all.
Resolution(def, import) == [present |-> TRUE, def |-> def, import |-> import]
NoEntry == [present |-> FALSE, def |-> PerNsNone, import |-> NoImport]
EmptyItems == [n \in AllNames |-> NoEntry]
EmptyLegacy == [n \in AllNames |-> None]

\* ModuleData (the fields the collector writes).
ModuleData(parent, legacy) ==
    [parent |-> parent, items |-> EmptyItems, legacy_macros |-> legacy,
     children |-> [n \in AllNames |-> 0], impls |-> 0]

Root == 1

\* ------------------------------------------------------ the dependency

\* The dependency's def map is finished and frozen.  Its root module (1)
\* holds a struct `a` and a macro `b`; its module 2 is the module it may
\* expose as prelude, holding a struct `b`.
DepRoot == 1
DepPreludeModule == 2
DepItems(m) ==
    IF m = DepRoot
    THEN [n \in AllNames |->
            IF n = "a" THEN Resolution(PerNsBoth(Entity("xdef", 1), Entity("xdef", 1)), NoImport)
            ELSE IF n = "b" THEN Resolution(PerNsMacros(Entity("xmacro", 2)), NoImport)
            ELSE NoEntry]
    ELSE [n \in AllNames |->
            IF n = "b" THEN Resolution(PerNsBoth(Entity("xdef", 3), Entity("xdef", 3)), NoImport)
            ELSE NoEntry]

\* Variants of every enum of the crate (enum_data is supplied by the database).
EnumVariants == {"b"}

\* ------------------------------------------------ update / update_recursive

\* import.or(res.import)
ImportOr(import, resImport) == IF import # NoImport THEN import ELSE resImport

\* update_recursive's loop body, had it written every namespace the batch
\* brings whether or not the scope already held one.
MergeEntryOverwrite(existing, res, import) ==
    LET t == res.def.types # None
        v == res.def.values # None
        m == res.def.macros # None
    IN  [entry |-> [present |-> TRUE,
                    def |-> PerNsOr(res.def, existing.def),
                    import |-> IF t \/ v \/ m THEN ImportOr(import, res.import)
                               ELSE existing.import],
         changed |-> t \/ v \/ m]

\* The body of update_recursive's loop for one (name, res) of the batch:
\* each namespace is written only where the existing entry has none.
MergeEntry(existing, res, import) ==
    LET t == existing.def.types = None /\ res.def.types # None
        e1 == IF t THEN [existing EXCEPT !.def.types = res.def.types,
                                         !.import = ImportOr(import, res.import)]
              ELSE existing
        v == e1.def.values = None /\ res.def.values # None
        e2 == IF v THEN [e1 EXCEPT !.def.values = res.def.values,
                                   !.import = ImportOr(import, res.import)]
              ELSE e1
        m == e2.def.macros = None /\ res.def.macros # None
        e3 == IF m THEN [e2 EXCEPT !.def.macros = res.def.macros,
                                   !.import = ImportOr(import, res.import)]
              ELSE e2
        e4 == IF /\ PerNsIsNone(e3.def) /\ PerNsIsNone(res.def)
                 /\ e3.import = NoImport /\ res.import # NoImport
              THEN [e3 EXCEPT !.import = res.import]
              ELSE e3
    IN  [entry |-> [e4 EXCEPT !.present = TRUE], changed |-> t \/ v \/ m]

\* The loop over the batch, had it reported a change for every batch that
\* binds a name, whether or not a slot was set.
RECURSIVE MergeBatchTold(_, _, _, _)
MergeBatchTold(items, resolutions, import, k) ==
    IF k > Len(resolutions) THEN [items |-> items, changed |-> Len(resolutions) > 0]
    ELSE LET name == resolutions[k][1]
             r == MergeEntry(items[name], resolutions[k][2], import)
             rest == MergeBatchTold([items EXCEPT ![name] = r.entry], resolutions, import,
                                    k + 1)
         IN  [items |-> rest.items, changed |-> r.changed \/ rest.changed]

\* The loop over the batch: resolutions is a sequence of <<name, res>>.
\* Returns the scope's new items and whether any namespace slot was set.
RECURSIVE MergeBatch(_, _, _, _)
MergeBatch(items, resolutions, import, k) ==
    IF k > Len(resolutions) THEN [items |-> items, changed |-> FALSE]
    ELSE LET name == resolutions[k][1]
             r == MergeEntry(items[name], resolutions[k][2], import)
             rest == MergeBatch([items EXCEPT ![name] = r.entry], resolutions, import, k + 1)
         IN  [items |-> rest.items, changed |-> r.changed \/ rest.changed]

\* The collector's def map and glob edges, as threaded through its methods:
\*   modules         the arena of ModuleData, indexed from Root
\*   glob_imports    per module, the sequence of <<importing module, import id>>
\*   extern_prelude  name -> entity
\*   prelude         the crate's prelude module, or None
\*   panic           whether the method panicked
\*   deepest         the greatest depth update_recursive was invoked with
\* An operator below takes such a record and returns the one the method leaves.

DepthExceeded(depth) == depth > GlobDepthLimit

\* The recursion of update_recursive is kept as its call stack: calls holds
\* the invocations still to make, the next one first, each with the module it
\* updates, the import it tracks and its depth.
Invocation(module_id, import, depth) ==
    [module_id |-> module_id, import |-> import, depth |-> depth]

\* update_recursive, had it not replayed the batch along the glob edges.
GlobInvocationsDropped(edges, depth) == <<>>

\* update_recursive, had it replayed the batch into the first glob importer
\* only.
GlobInvocationsFirst(edges, depth) ==
    IF edges = <<>> THEN <<>> ELSE <<Invocation(edges[1][1], edges[1][2], depth)>>

\* The recursive calls of update_recursive's last loop, one per glob import
\* of the changed module, in order.
GlobInvocations(edges, depth) ==
    [k \in 1..Len(edges) |-> Invocation(edges[k][1], edges[k][2], depth)]

Deeper(cs, depth) == IF depth > cs.deepest THEN [cs EXCEPT !.deepest = depth] ELSE cs

\* update_recursive, had it replayed the batch whether or not a slot was set.
UpdateRecursiveBodyAlways(st, resolutions) ==
    IF st.calls = <<>> THEN st
    ELSE LET call == Head(st.calls)
         IN  IF DepthExceeded(call.depth)
             THEN [cs |-> [Deeper(st.cs, call.depth) EXCEPT !.panic = TRUE], calls |-> <<>>]
             ELSE LET r == MergeBatch(st.cs.modules[call.module_id].items, resolutions,
                                      call.import, 1)
                      cs1 == [Deeper(st.cs, call.depth)
                                  EXCEPT !.modules[call.module_id].items = r.items]
                  IN  [cs |-> cs1,
                       calls |-> GlobInvocations(cs1.glob_imports[call.module_id],
                                                 call.depth + 1) \o Tail(st.calls)]

\* One invocation of update_recursive, the first of st.calls: the depth
\* guard, the merge of the batch, and, when a slot was set, its recursive
\* calls put ahead of the calls that were pending.
UpdateRecursiveBody(st, resolutions) ==
    IF st.calls = <<>> THEN st
    ELSE LET call == Head(st.calls)
         IN  IF DepthExceeded(call.depth)
             THEN [cs |-> [Deeper(st.cs, call.depth) EXCEPT !.panic = TRUE], calls |-> <<>>]
             ELSE LET r == MergeBatch(st.cs.modules[call.module_id].items, resolutions,
                                      call.import, 1)
                      cs1 == [Deeper(st.cs, call.depth)
                                  EXCEPT !.modules[call.module_id].items = r.items]
                  IN  [cs |-> cs1,
                       calls |-> IF r.changed
                                 THEN GlobInvocations(cs1.glob_imports[call.module_id],
                                                      call.depth + 1) \o Tail(st.calls)
                                 ELSE Tail(st.calls)]

\* The invocations are made strictly one after the other.  They are grouped
\* by halving, which keeps the evaluation of a long chain of calls shallow:
\* UpdateRecursiveUpTo makes the next 2^k invocations, or all of them when
\* fewer are to make, as two runs of 2^(k-1); the second run starts from the
\* state the first leaves.
RECURSIVE UpdateRecursiveUpTo(_, _, _)
UpdateRecursiveRest(half, resolutions, k) ==
    IF half.calls = <<>> THEN half ELSE UpdateRecursiveUpTo(half, resolutions, k)

UpdateRecursiveUpTo(st, resolutions, k) ==
    IF k = 0 THEN UpdateRecursiveBody(st, resolutions)
    ELSE UpdateRecursiveRest(UpdateRecursiveUpTo(st, resolutions, k - 1), resolutions, k - 1)

\* Every invocation, until none is to make: runs of 1, 2, 4, ... invocations.
RECURSIVE UpdateRecursiveAll(_, _, _)
UpdateRecursiveMore(next, resolutions, k) ==
    IF next.calls = <<>> THEN next.cs ELSE UpdateRecursiveAll(next, resolutions, k)

UpdateRecursiveAll(st, resolutions, k) ==
    UpdateRecursiveMore(UpdateRecursiveUpTo(st, resolutions, k), resolutions, k + 1)

\* update_recursive
UpdateRecursive(cs, module_id, import, resolutions, depth) ==
    IF cs.panic THEN cs
    ELSE UpdateRecursiveAll([cs |-> cs, calls |-> <<Invocation(module_id, import, depth)>>],
                            resolutions, 0)

Update(cs, module_id, import, resolutions) ==
    UpdateRecursive(cs, module_id, import, resolutions, 0)

\* ------------------------------------------------------ macro definitions

\* define_legacy_macro, had it kept an earlier binding of the name.
DefineLegacyMacroKeep(cs, module_id, name, macro) ==
    IF cs.modules[module_id].legacy_macros[name] # None THEN cs
    ELSE [cs EXCEPT !.modules[module_id].legacy_macros[name] = macro]

\* define_legacy_macro, had the children shared the parent's legacy scope.
DefineLegacyMacroInherited(cs, module_id, name, macro) ==
    [cs EXCEPT !.modules =
        [m \in 1..Len(cs.modules) |->
            IF m = module_id \/ cs.modules[m].parent = module_id
            THEN [cs.modules[m] EXCEPT !.legacy_macros[name] = macro]
            ELSE cs.modules[m]]]

\* define_legacy_macro: always shadowing.
DefineLegacyMacro(cs, module_id, name, macro) ==
    [cs EXCEPT !.modules[module_id].legacy_macros[name] = macro]

\* define_macro, had it skipped the root's module scope.
DefineMacroLegacyOnly(cs, module_id, name, macro, export) ==
    [cs EXCEPT !.modules[module_id].legacy_macros[name] = macro]

\* define_macro, had it written the root's module scope without looking at
\* the export flag.
DefineMacroAlwaysExported(cs, module_id, name, macro, export) ==
    Update([cs EXCEPT !.modules[module_id].legacy_macros[name] = macro],
           Root, NoImport, <<<<name, Resolution(PerNsMacros(macro), NoImport)>>>>)

\* define_macro: textual scope always, the root's module scope when exported.
DefineMacro(cs, module_id, name, macro, export) ==
    LET cs1 == DefineLegacyMacro(cs, module_id, name, macro)
    IN  IF export
        THEN Update(cs1, Root, NoImport, <<<<name, Resolution(PerNsMacros(macro), NoImport)>>>>)
        ELSE cs1

\* The macros of a scope, as a sequence of <<name, macro>> in name order.
NameOrder == <<"a", "b", "dep">>
RECURSIVE ScopeMacrosFrom(_, _)
ScopeMacrosFrom(items, k) ==
    IF k > Len(NameOrder) THEN <<>>
    ELSE LET n == NameOrder[k]
         IN  (IF items[n].present /\ items[n].def.macros # None
              THEN <<<<n, items[n].def.macros>>>> ELSE <<>>)
             \o ScopeMacrosFrom(items, k + 1)

RECURSIVE DefineLegacyAll(_, _, _, _)
DefineLegacyAll(cs, module_id, macros, k) ==
    IF k > Len(macros) THEN cs
    ELSE DefineLegacyAll(DefineLegacyMacro(cs, module_id, macros[k][1], macros[k][2]),
                         module_id, macros, k + 1)

\* import_all_macros_exported: every macro of the dependency's root scope
\* goes into the module's legacy scope.
ImportAllMacrosExported(cs, current_module_id) ==
    DefineLegacyAll(cs, current_module_id, ScopeMacrosFrom(DepItems(DepRoot), 1), 1)

\* resolve_name_in_extern_prelude
ResolveNameInExternPrelude(cs, name) == PerNsTypes(cs.extern_prelude[name])

\* import_macros_from_extern_crate
ImportMacrosFromExternCrate(cs, current_module_id, import) ==
    LET res == ResolveNameInExternPrelude(cs, import.path.segments[1])
    IN  IF res.types.k = "xmodule"
        THEN ImportAllMacrosExported(cs, current_module_id)
        ELSE cs


\* --------------------------------------------------------- path resolution

\* A path: kind is "Plain", "Self", "Super" or "Crate"; segments a sequence
\* of names.  ResolvePathResult: the resolved PerNs, whether the resolver
\* reached a fixed point, and the crate the path resolved in.
Path(kind, segments) == [kind |-> kind, segments |-> segments]
PathResult(def, fp, krate) == [resolved_def |-> def, reached_fixedpoint |-> fp, krate |-> krate]
PathEmpty(fp) == PathResult(PerNsNone, fp, "none")

ScopeGet(items, name) == IF items[name].present THEN items[name].def ELSE PerNsNone

\* The prelude's scope, looked up as a last resort.
ResolveInPrelude(cs, name) ==
    IF cs.prelude.k = "module" THEN ScopeGet(cs.modules[cs.prelude.id].items, name)
    ELSE IF cs.prelude.k = "xmodule" THEN ScopeGet(DepItems(cs.prelude.id), name)
    ELSE PerNsNone

\* A bare name: legacy macro scope, then the module's scope, then the
\* extern prelude, then the prelude.
ResolveNameInModule(cs, module, name) ==
    PerNsOr(PerNsOr(PerNsOr(PerNsMacros(cs.modules[module].legacy_macros[name]),
                            ScopeGet(cs.modules[module].items, name)),
                    PerNsTypes(cs.extern_prelude[name])),
            ResolveInPrelude(cs, name))

\* The rest of a path inside the dependency's frozen def map.
RECURSIVE ResolveInDep(_, _, _)
ResolveInDep(curr, segments, k) ==
    IF k > Len(segments) THEN curr
    ELSE IF curr.types.k = "xmodule"
         THEN IF DepItems(curr.types.id)[segments[k]].present
              THEN ResolveInDep(DepItems(curr.types.id)[segments[k]].def, segments, k + 1)
              ELSE PerNsNone
         ELSE IF curr.types = None THEN PerNsNone
         ELSE PerNsTypes(curr.types)

\* The segments after the first, resolved one by one in the types namespace.
RECURSIVE ResolveSegments(_, _, _, _)
ResolveSegments(cs, curr, segments, k) ==
    IF k > Len(segments) THEN PathResult(curr, TRUE, "self")
    ELSE IF curr.types = None THEN PathEmpty(FALSE)
    ELSE IF curr.types.k = "xmodule"
         THEN PathResult(ResolveInDep(curr, segments, k), TRUE, "dep")
    ELSE IF curr.types.k = "module"
         THEN IF cs.modules[curr.types.id].items[segments[k]].present
              THEN ResolveSegments(cs, cs.modules[curr.types.id].items[segments[k]].def,
                                   segments, k + 1)
              ELSE PathEmpty(FALSE)
    ELSE IF curr.types.k = "enum"
         THEN IF segments[k] \in EnumVariants
              THEN ResolveSegments(cs, PerNsBoth(Entity("variant", curr.types.id),
                                                 Entity("variant", curr.types.id)),
                                   segments, k + 1)
              ELSE PathResult(PerNsTypes(curr.types), TRUE, "self")
    ELSE PathResult(PerNsTypes(curr.types), TRUE, "self")

\* resolve_path_fp_with_macro (edition 2018).
ResolvePathFpWithMacro(cs, original_module, path) ==
    IF path.kind = "Crate"
    THEN ResolveSegments(cs, PerNsTypes(LocalModule(Root)), path.segments, 1)
    ELSE IF path.kind = "Self"
    THEN ResolveSegments(cs, PerNsTypes(LocalModule(original_module)), path.segments, 1)
    ELSE IF path.kind = "Super"
    THEN IF cs.modules[original_module].parent # 0
         THEN ResolveSegments(cs, PerNsTypes(LocalModule(cs.modules[original_module].parent)),
                              path.segments, 1)
         ELSE PathEmpty(TRUE)
    ELSE IF Len(path.segments) = 0 THEN PathEmpty(TRUE)
    ELSE ResolveSegments(cs, ResolveNameInModule(cs, original_module, path.segments[1]),
                         path.segments, 2)

\* --------------------------------------------------------- import resolution

\* ImportData
ImportData(path, alias, is_glob, is_prelude, is_extern_crate, is_macro_use) ==
    [path |-> path, alias |-> alias, is_glob |-> is_glob, is_prelude |-> is_prelude,
     is_extern_crate |-> is_extern_crate, is_macro_use |-> is_macro_use]

\* PartialResolvedImport
Status(tag, ns) == [tag |-> tag, ns |-> ns]
Unresolved == Status("Unresolved", PerNsNone)
Indeterminate(ns) == Status("Indeterminate", ns)
Resolved(ns) == Status("Resolved", ns)
\* PartialResolvedImport::namespaces
StatusNamespaces(status) == IF status.tag = "Unresolved" THEN PerNsNone ELSE status.ns

NoImportData == ImportData(Path("Plain", <<>>), NoName, FALSE, FALSE, FALSE, FALSE)

ImportDirective(module_id, import_id, import, status) ==
    [module_id |-> module_id, import_id |-> import_id, import |-> import, status |-> status]

\* resolve_import, had it sent extern-crate imports through the path
\* resolver like the others.
ResolveImportByPath(cs, module_id, import) ==
    LET res == ResolvePathFpWithMacro(cs, module_id, import.path)
        def == res.resolved_def
    IN  IF ~res.reached_fixedpoint THEN Unresolved
        ELSE IF res.krate = "dep" THEN Resolved(def)
        ELSE IF def.types # None /\ def.values # None /\ def.macros # None
             THEN Resolved(def)
             ELSE Indeterminate(def)

\* resolve_import
ResolveImport(cs, module_id, import) ==
    IF import.is_extern_crate
    THEN Resolved(ResolveNameInExternPrelude(cs, import.path.segments[1]))
    ELSE LET res == ResolvePathFpWithMacro(cs, module_id, import.path)
             def == res.resolved_def
         IN  IF ~res.reached_fixedpoint THEN Unresolved
             ELSE IF res.krate = "dep" THEN Resolved(def)
             ELSE IF def.types # None /\ def.values # None /\ def.macros # None
                  THEN Resolved(def)
                  ELSE Indeterminate(def)

\* The items of a scope as a batch for update, in name order.
RECURSIVE ScopeItemsFrom(_, _)
ScopeItemsFrom(items, k) ==
    IF k > Len(NameOrder) THEN <<>>
    ELSE (IF items[NameOrder[k]].present
          THEN <<<<NameOrder[k], items[NameOrder[k]]>>>> ELSE <<>>)
         \o ScopeItemsFrom(items, k + 1)

\* The variants of an enum as a batch for update.
RECURSIVE EnumResolutionsFrom(_, _, _)
EnumResolutionsFrom(e, import_id, k) ==
    IF k > Len(NameOrder) THEN <<>>
    ELSE (IF NameOrder[k] \in EnumVariants
          THEN <<<<NameOrder[k],
                   Resolution(PerNsBoth(Entity("variant", e.id), Entity("variant", e.id)),
                              import_id)>>>>
          ELSE <<>>)
         \o EnumResolutionsFrom(e, import_id, k + 1)

\* The glob edge of a same-crate glob import, recorded once.
RecordGlobEdge(cs, source, module_id, import_id) ==
    IF \E j \in 1..Len(cs.glob_imports[source]) :
           cs.glob_imports[source][j] = <<module_id, import_id>>
    THEN cs
    ELSE [cs EXCEPT !.glob_imports[source] = Append(@, <<module_id, import_id>>)]

\* The name a plain import binds: its alias, else the path's last segment.
ImportName(import) ==
    IF import.alias # NoName THEN import.alias
    ELSE import.path.segments[Len(import.path.segments)]

\* The glob branch, had it copied nothing from a module of another crate.
RecordGlobImportLocalOnly(cs, module_id, import_id, import, def) ==
    IF def.types.k \in {"module", "xmodule"}
    THEN IF import.is_prelude THEN [cs EXCEPT !.prelude = def.types]
         ELSE IF def.types.k = "xmodule" THEN cs
         ELSE RecordGlobEdge(
                  Update(cs, module_id, import_id,
                         ScopeItemsFrom(cs.modules[def.types.id].items, 1)),
                  def.types.id, module_id, import_id)
    ELSE IF def.types.k = "enum"
    THEN Update(cs, module_id, import_id, EnumResolutionsFrom(def.types, import_id, 1))
    ELSE cs

\* The glob branch, had it recorded the glob edge without the initial
\* import of the target's scope.
RecordGlobImportEdgeOnly(cs, module_id, import_id, import, def) ==
    IF def.types.k \in {"module", "xmodule"}
    THEN IF import.is_prelude THEN [cs EXCEPT !.prelude = def.types]
         ELSE IF def.types.k = "xmodule"
         THEN Update(cs, module_id, import_id, ScopeItemsFrom(DepItems(def.types.id), 1))
         ELSE RecordGlobEdge(cs, def.types.id, module_id, import_id)
    ELSE IF def.types.k = "enum"
    THEN Update(cs, module_id, import_id, EnumResolutionsFrom(def.types, import_id, 1))
    ELSE cs

\* The glob branch, had the prelude flag added the prelude to the import.
RecordGlobImportPreludeToo(cs, module_id, import_id, import, def) ==
    IF def.types.k \in {"module", "xmodule"}
    THEN IF def.types.k = "xmodule"
         THEN Update([cs EXCEPT !.prelude = IF import.is_prelude THEN def.types ELSE @],
                     module_id, import_id, ScopeItemsFrom(DepItems(def.types.id), 1))
         ELSE RecordGlobEdge(
                  Update([cs EXCEPT !.prelude = IF import.is_prelude THEN def.types ELSE @],
                         module_id, import_id,
                         ScopeItemsFrom(cs.modules[def.types.id].items, 1)),
                  def.types.id, module_id, import_id)
    ELSE IF def.types.k = "enum"
    THEN Update(cs, module_id, import_id, EnumResolutionsFrom(def.types, import_id, 1))
    ELSE cs

\* record_resolved_import, the glob branch.
RecordGlobImport(cs, module_id, import_id, import, def) ==
    IF def.types.k \in {"module", "xmodule"}
    THEN IF import.is_prelude THEN [cs EXCEPT !.prelude = def.types]
         ELSE IF def.types.k = "xmodule"
         THEN Update(cs, module_id, import_id, ScopeItemsFrom(DepItems(def.types.id), 1))
         ELSE RecordGlobEdge(
                  Update(cs, module_id, import_id,
                         ScopeItemsFrom(cs.modules[def.types.id].items, 1)),
                  def.types.id, module_id, import_id)
    ELSE IF def.types.k = "enum"
    THEN Update(cs, module_id, import_id, EnumResolutionsFrom(def.types, import_id, 1))
    ELSE cs

\* The plain branch, had it dropped an import that resolved to nothing.
RecordPlainImportResolvedOnly(cs, module_id, import_id, import, def) ==
    IF Len(import.path.segments) = 0 \/ PerNsIsNone(def) THEN cs
    ELSE LET name == ImportName(import)
             cs1 == IF import.is_extern_crate /\ module_id = Root /\ def.types # None
                    THEN [cs EXCEPT !.extern_prelude[name] = def.types]
                    ELSE cs
         IN  Update(cs1, module_id, import_id, <<<<name, Resolution(def, import_id)>>>>)

\* record_resolved_import, the branch of a plain import.
RecordPlainImport(cs, module_id, import_id, import, def) ==
    IF Len(import.path.segments) = 0 THEN cs
    ELSE LET name == ImportName(import)
             cs1 == IF import.is_extern_crate /\ module_id = Root /\ def.types # None
                    THEN [cs EXCEPT !.extern_prelude[name] = def.types]
                    ELSE cs
         IN  Update(cs1, module_id, import_id, <<<<name, Resolution(def, import_id)>>>>)

\* record_resolved_import
RecordResolvedImport(cs, directive) ==
    IF cs.panic THEN cs
    ELSE IF directive.import.is_glob
    THEN RecordGlobImport(cs, directive.module_id, directive.import_id, directive.import,
                          StatusNamespaces(directive.status))
    ELSE RecordPlainImport(cs, directive.module_id, directive.import_id, directive.import,
                           StatusNamespaces(directive.status))

\* The body of resolve_imports' inner loop for one directive taken out of
\* unresolved_imports; ir holds the collector record cs and the two lists.
ResolveImportsBody(ir, directive) ==
    LET status == ResolveImport(ir.cs, directive.module_id, directive.import)
        resolved_directive == [directive EXCEPT !.status = status]
    IN  IF status.tag = "Unresolved"
        THEN [ir EXCEPT !.unresolved = Append(@, resolved_directive)]
        ELSE [ir EXCEPT !.cs = RecordResolvedImport(ir.cs, resolved_directive),
                        !.resolved = Append(@, resolved_directive)]

\* The inner loop over the directives lo..hi, in order: the first half of
\* the range, then the second from the state the first leaves.  (Halving the
\* range keeps the evaluation of a long list shallow.)
RECURSIVE ResolveImportsRange(_, _, _, _)
ResolveImportsRest(half, imports, lo, hi) ==
    IF half.cs.panic THEN half ELSE ResolveImportsRange(half, imports, lo, hi)

ResolveImportsRange(ir, imports, lo, hi) ==
    IF lo > hi \/ ir.cs.panic THEN ir
    ELSE IF lo = hi THEN ResolveImportsBody(ir, imports[lo])
    ELSE ResolveImportsRest(ResolveImportsRange(ir, imports, lo, (lo + hi) \div 2),
                            imports, (lo + hi) \div 2 + 1, hi)

\* One pass of resolve_imports over the directives taken out of
\* unresolved_imports.
ResolveImportsPass(ir, imports, k) == ResolveImportsRange(ir, imports, k, Len(imports))

\* resolve_imports: passes until one leaves the number of unresolved
\* imports as it was.
RECURSIVE ResolveImportsLoop(_, _)
ResolveImportsLoop(ir, n_previous_unresolved) ==
    IF ir.cs.panic \/ ~(Len(ir.unresolved) < n_previous_unresolved) THEN ir
    ELSE ResolveImportsLoop(
             ResolveImportsPass([ir EXCEPT !.unresolved = <<>>], ir.unresolved, 1),
             Len(ir.unresolved))

\* resolve_imports, had it made one pass only.
ResolveImportsOnce(ir) ==
    ResolveImportsPass([ir EXCEPT !.unresolved = <<>>], ir.unresolved, 1)

ResolveImports(ir) == ResolveImportsLoop(ir, Len(ir.unresolved) + 1)


\* ------------------------------------------------------- Expander: the data

\* HirFileId: the file of the body's source, or the file of an expansion,
\* named by the macro, the file of the call and the call's place in it.
SourceFile == <<>>
MacroDefs == {"self_macro", "dep_macro"}
AsFile(def, file_id, call) == Append(file_id, [def |-> def, call |-> call])
\* Hygiene::new: the crate `$crate` stands for in the file, the defining
\* crate of the macro whose expansion the file holds.
HygieneNew(file_id) ==
    IF file_id = SourceFile THEN [def_crate |-> "none"]
    ELSE [def_crate |-> IF file_id[Len(file_id)].def = "dep_macro" THEN "dep" ELSE "self"]
\* Mark
Mark(file_id) == [file_id |-> file_id]
\* A sequence without its k-th element.
Remove(seq, k) == SubSeq(seq, 1, k - 1) \o SubSeq(seq, k + 1, Len(seq))

\* A dependency of the crate: its name, the root module of its def map and
\* the prelude its def map exposes, if any.
Dependency(name, root, dep_prelude) == [name |-> name, root |-> root, prelude |-> dep_prelude]

\* -------------------------------------------------------------------- state

VARIABLES
    modules,             \* def_map.modules: the arena of ModuleData
    glob_imports,        \* per module, the <<importing module, import id>> globbing it
    extern_prelude,      \* def_map.extern_prelude
    prelude,             \* def_map.prelude
    diagnostics,         \* def_map.diagnostics
    unresolved_imports,  \* import directives still to resolve
    resolved_imports,    \* import directives resolved, fully or partially
    unexpanded_macros,   \* macro directives still to resolve
    mod_dirs,            \* the modules with an entry in mod_dirs
    i,                   \* collect's count of outer iterations that resolved a macro
    pc,                  \* where DefCollector::collect stands
    stack,               \* the ModCollector::collect calls in progress, innermost last
    resolved,            \* resolve_macros: the resolved calls still to expand
    res,                 \* resolve_macros: TRUE for ReachedFixedPoint::Yes
    stuck,               \* whether "name resolution is stuck" was logged
    n_defs,              \* item definitions collected so far
    n_imports,           \* import items met so far
    n_macro_defs,        \* macro_rules! definitions collected so far
    n_calls,             \* macro invocations collected so far
    n_items,             \* items of the crate met so far, of every kind
    input,               \* history: the raw items handled so far, in order
    gained,              \* history: the <<module, name, namespace>> slots set by a
                         \* step that began with the module already globbed
    deps,                \* history: the dependencies collect_defs has seeded, in order
    canceled,            \* whether the database has been asked to cancel the query
    current_file_id,     \* Expander.current_file_id
    hygiene,             \* Expander.hygiene
    marks,               \* the Marks alive in the Expander's caller, oldest first
    panicking,           \* std::thread::panicking() of the Expander's thread
    exp,                 \* history of the Expander's calls
    unexpanded_attribute_macros,  \* derive directives still to resolve
    exps                 \* history of the expansions collect_macro_expansion collected

defmap == <<modules, glob_imports, extern_prelude, prelude>>
directives == <<unresolved_imports, resolved_imports, unexpanded_macros>>
control == <<i, pc, stack, resolved, res, stuck>>
counters == <<n_defs, n_imports, n_macro_defs, n_calls, n_items>>
expander == <<current_file_id, hygiene, marks, panicking, exp>>
\* What no step of the collector changes.
others == <<deps, canceled, expander>>
\* What only the handling of derives and of expansions changes.
late == <<unexpanded_attribute_macros, exps>>
collector == <<defmap, diagnostics, directives, mod_dirs, control, counters, input, gained,
               late>>
vars == <<collector, others>>

\* The collector record of the current state.
CS == [modules |-> modules, glob_imports |-> glob_imports,
       extern_prelude |-> extern_prelude, prelude |-> prelude, panic |-> FALSE,
       deepest |-> 0]

\* The slots a step sets in modules that a glob import already names as source.
GainedBy(cs) ==
    {<<m, n, ns>> \in (1..Len(modules)) \X AllNames \X Namespaces :
        /\ glob_imports[m] # <<>>
        /\ Slot(modules[m].items[n].def, ns) = None
        /\ Slot(cs.modules[m].items[n].def, ns) # None}

\* The state a method leaves: its def map, and the panic that ends collect.
Leave(cs, next_pc) ==
    /\ modules' = cs.modules
    /\ glob_imports' = cs.glob_imports
    /\ extern_prelude' = cs.extern_prelude
    /\ prelude' = cs.prelude
    /\ pc' = IF cs.panic THEN "panicked" ELSE next_pc
    /\ gained' = gained \cup GainedBy(cs)

\* A raw item as handled: op is its kind, module the module whose list holds
\* it, name its name, import its ImportData (for a call, the call's path),
\* export its #[macro_export], macro_use its #[macro_use], ent what it
\* defines (for an import, its id), old what the module's legacy scope bound
\* under the name before a macro_rules! item was handled.
Item(op, module, name, import, export, macro_use, ent, old) ==
    [op |-> op, module |-> module, name |-> name, import |-> import, export |-> export,
     macro_use |-> macro_use, ent |-> ent, old |-> old, builtin |-> FALSE]
DefItem(module, name, ent) ==
    Item("def", module, name, NoImportData, FALSE, FALSE, ent, None)
ImportItem(module, import_id, import) ==
    Item("import", module, NoName, import, FALSE, import.is_macro_use,
         Entity("import", import_id), None)
ModuleItem(module, name, is_macro_use, child) ==
    Item("module", module, name, NoImportData, FALSE, is_macro_use, LocalModule(child), None)
UnresolvedModuleItem(module, name) ==
    Item("unresolved_module", module, name, NoImportData, FALSE, FALSE, None, None)
RulesItem(module, name, export, ent, old) ==
    Item("rules", module, name,
         ImportData(Path("Plain", <<"macro_rules">>), NoName, FALSE, FALSE, FALSE, FALSE),
         export, FALSE, ent, old)
CallItem(module, ast_id, path) ==
    Item("call", module, NoName, ImportData(path, NoName, FALSE, FALSE, FALSE, FALSE),
         FALSE, FALSE, Entity("call", ast_id), None)
\* A macro item as written: its path, name and flags.
MacroItem(item, mac) ==
    [item EXCEPT !.import.path = mac.path, !.name = mac.name, !.export = mac.export,
                 !.builtin = mac.builtin]

\* The current ModCollector::collect call and its module.
Top == stack[Len(stack)]
Collecting == pc \in {"collect_root", "collect_expansion"} /\ Len(stack) > 0

\* collect_defs has seeded the extern prelude with the dependency's name,
\* bound to its root module; the dependency exposes no prelude.
Init ==
    /\ modules = <<ModuleData(0, EmptyLegacy)>>
    /\ glob_imports = <<<<>>>>
    /\ extern_prelude = [n \in AllNames |->
                            IF n = DepName THEN Entity("xmodule", DepRoot) ELSE None]
    /\ prelude = None
    /\ diagnostics = <<>>
    /\ unresolved_imports = <<>>
    /\ resolved_imports = <<>>
    /\ unexpanded_macros = <<>>
    /\ mod_dirs = {}
    /\ i = 0
    /\ pc = "start"
    /\ stack = <<>>
    /\ resolved = <<>>
    /\ res = TRUE
    /\ stuck = FALSE
    /\ n_defs = 0
    /\ n_imports = 0
    /\ n_macro_defs = 0
    /\ n_calls = 0
    /\ n_items = 0
    /\ input = <<>>
    /\ gained = {}
    /\ deps = <<Dependency(DepName, Entity("xmodule", DepRoot), None)>>
    /\ canceled = FALSE
    /\ current_file_id = SourceFile
    /\ hygiene = HygieneNew(SourceFile)
    /\ marks = <<>>
    /\ panicking = FALSE
    /\ exp = [ops |-> 0, nested |-> TRUE, saved |-> <<>>, entered |-> 0, exits |-> 0,
              dropped_mark_panics |-> 0, last |-> "new"]
    /\ unexpanded_attribute_macros = <<>>
    /\ exps = [start |-> 0, empty |-> 0, after_empty |-> FALSE]

\* ------------------------------------------------- ModCollector::collect

\* A frame of stack: the module collected, whether its declaration carries
\* #[macro_use], the number of items of its list handled so far, and the
\* `#[macro_use] extern crate` item of the list that the first pass hoisted
\* and the second pass has not reached yet.
NoHoist == [pending |-> FALSE, import_id |-> NoImport, import |-> NoImportData]
Hoist(import_id, import) == [pending |-> TRUE, import_id |-> import_id, import |-> import]
Frame(module_id, is_macro_use, hoist) ==
    [module_id |-> module_id, is_macro_use |-> is_macro_use, len |-> 0, hoist |-> hoist]

\* The stack with one more item of the current list handled.
Advance(stk) == [stk EXCEPT ![Len(stk)].len = @ + 1]

\* The start of ModCollector::collect without its first loop.
CollectPrologueNoHoist(cs, module_id, hoist) ==
    IF cs.prelude.k = "xmodule" THEN ImportAllMacrosExported(cs, module_id) ELSE cs

\* The start of ModCollector::collect, up to its first loop: the prelude of
\* another crate is always #[macro_use], and macros of a
\* `#[macro_use] extern crate` item of the list are imported before any item.
CollectPrologue(cs, module_id, hoist) ==
    LET cs1 == IF cs.prelude.k = "xmodule" THEN ImportAllMacrosExported(cs, module_id) ELSE cs
    IN  IF hoist.pending THEN ImportMacrosFromExternCrate(cs1, module_id, hoist.import)
        ELSE cs1

\* push_child_module, had the children map kept the first child of a name.
PushChildModuleKeep(cs, parent, name) ==
    LET child == Len(cs.modules) + 1
        cs1 == [cs EXCEPT
                  !.modules = Append([@ EXCEPT ![parent].children[name] =
                                                   IF @ = 0 THEN child ELSE @],
                                     ModuleData(parent, cs.modules[parent].legacy_macros)),
                  !.glob_imports = Append(@, <<>>)]
    IN  Update(cs1, parent, NoImport,
               <<<<name, Resolution(PerNsTypes(LocalModule(child)), NoImport)>>>>)

\* push_child_module
PushChildModule(cs, parent, name) ==
    LET child == Len(cs.modules) + 1
        cs1 == [cs EXCEPT
                  !.modules = Append([@ EXCEPT ![parent].children[name] = child],
                                     ModuleData(parent, cs.modules[parent].legacy_macros)),
                  !.glob_imports = Append(@, <<>>)]
    IN  Update(cs1, parent, NoImport,
               <<<<name, Resolution(PerNsTypes(LocalModule(child)), NoImport)>>>>)

\* import_all_legacy_macros: the child's legacy scope, copied into the parent's.
RECURSIVE LegacyMacrosFrom(_, _)
LegacyMacrosFrom(legacy, k) ==
    IF k > Len(NameOrder) THEN <<>>
    ELSE (IF legacy[NameOrder[k]] # None
          THEN <<<<NameOrder[k], legacy[NameOrder[k]]>>>> ELSE <<>>)
         \o LegacyMacrosFrom(legacy, k + 1)

ImportAllLegacyMacros(cs, parent, module_id) ==
    DefineLegacyAll(cs, parent, LegacyMacrosFrom(cs.modules[module_id].legacy_macros, 1), 1)

\* The PerNs define_def gives a definition of each kind.
DefEntity(kind, id) == IF kind = "enum" THEN Entity("enum", id) ELSE Entity("def", id)
DefPerNs(kind, id) ==
    IF kind = "fn" THEN PerNsValues(DefEntity(kind, id))
    ELSE IF kind = "struct" THEN PerNsBoth(DefEntity(kind, id), DefEntity(kind, id))
    ELSE PerNsTypes(DefEntity(kind, id))

\* define_def
DefineDef(cs, module_id, name, kind, id) ==
    Update(cs, module_id, NoImport, <<<<name, Resolution(DefPerNs(kind, id), NoImport)>>>>)

\* MacroData and MacroDirective
MacroData(path, name, export) ==
    [path |-> path, name |-> name, export |-> export, builtin |-> FALSE]
MacroRulesPath == Path("Plain", <<"macro_rules">>)
IsMacroRules(path) == path = MacroRulesPath
IsIdent(path) == path.kind = "Plain" /\ Len(path.segments) = 1
MacroDirective(module_id, ast_id, path, legacy) ==
    [module_id |-> module_id, ast_id |-> ast_id, path |-> path, legacy |-> legacy]
\* An entry of unexpanded_attribute_macros.
AttributeDirective(module_id, ast_id, path) ==
    [module_id |-> module_id, ast_id |-> ast_id, path |-> path]

\* ------------------------------------------------------------------ actions

\* DefCollector::collect starts ModCollector::collect on the root module.
\* hoist is the `#[macro_use] extern crate` item of the root's list, if any.
StartCollect(hoist) ==
    /\ UNCHANGED others
    /\ UNCHANGED late
    /\ pc = "start"
    /\ Leave(CollectPrologue(CS, Root, hoist), "collect_root")
    /\ mod_dirs' = mod_dirs \cup {Root}
    /\ stack' = <<Frame(Root, FALSE, hoist)>>
    /\ n_imports' = IF hoist.pending THEN n_imports + 1 ELSE n_imports
    /\ n_items' = IF hoist.pending THEN n_items + 1 ELSE n_items
    /\ UNCHANGED input
    /\ UNCHANGED <<diagnostics, directives, i, resolved, res, stuck,
                   n_defs, n_macro_defs, n_calls>>

\* RawItemKind::Def: define_def.
CollectDef(name, kind) ==
    /\ UNCHANGED others
    /\ UNCHANGED late
    /\ Collecting
    /\ Leave(DefineDef(CS, Top.module_id, name, kind, n_defs + 1), pc)
    /\ stack' = Advance(stack)
    /\ n_defs' = n_defs + 1
    /\ n_items' = n_items + 1
    /\ input' = Append(input, DefItem(Top.module_id, name, DefEntity(kind, n_defs + 1)))
    /\ UNCHANGED <<diagnostics, directives, mod_dirs, i, resolved, res, stuck,
                   n_imports, n_macro_defs, n_calls>>

\* collect_derives: one directive for each name of the item's derive
\* attributes.
RECURSIVE DeriveDirectives(_, _, _, _)
DeriveDirectives(module_id, ast_id, derives, k) ==
    IF k > Len(derives) THEN <<>>
    ELSE <<AttributeDirective(module_id, ast_id, Path("Plain", <<derives[k]>>))>>
         \o DeriveDirectives(module_id, ast_id, derives, k + 1)

\* RawItemKind::Def of an item with derive attributes: define_def.
CollectDerivedDef(name, kind, derives) ==
    /\ UNCHANGED others
    /\ UNCHANGED exps
    /\ Collecting
    /\ unexpanded_attribute_macros' =
           unexpanded_attribute_macros
               \o DeriveDirectives(Top.module_id, n_defs + 1, derives, 1)
    /\ Leave(DefineDef(CS, Top.module_id, name, kind, n_defs + 1), pc)
    /\ stack' = Advance(stack)
    /\ n_defs' = n_defs + 1
    /\ n_items' = n_items + 1
    /\ input' = Append(input, DefItem(Top.module_id, name, DefEntity(kind, n_defs + 1)))
    /\ UNCHANGED <<diagnostics, directives, mod_dirs, i, resolved, res, stuck,
                   n_imports, n_macro_defs, n_calls>>

\* RawItemKind::Impl: the impl is pushed onto the module's impls.
CollectImpl ==
    /\ UNCHANGED others
    /\ UNCHANGED late
    /\ Collecting
    /\ modules' = [modules EXCEPT ![Top.module_id].impls = @ + 1]
    /\ stack' = Advance(stack)
    /\ n_items' = n_items + 1
    /\ input' = Append(input, Item("impl", Top.module_id, NoName, NoImportData, FALSE, FALSE,
                                    None, None))
    /\ UNCHANGED <<glob_imports, extern_prelude, prelude, gained, diagnostics, directives,
                   mod_dirs, i, pc, resolved, res, stuck, n_defs, n_imports, n_macro_defs,
                   n_calls>>

\* RawItemKind::Import: the directive is queued, unresolved.
CollectImport(import) ==
    /\ UNCHANGED others
    /\ UNCHANGED late
    /\ Collecting
    /\ ~(import.is_extern_crate /\ import.is_macro_use)
    /\ unresolved_imports' =
           Append(unresolved_imports,
                  ImportDirective(Top.module_id, n_imports + 1, import, Unresolved))
    /\ stack' = Advance(stack)
    /\ n_imports' = n_imports + 1
    /\ n_items' = n_items + 1
    /\ input' = Append(input, ImportItem(Top.module_id, n_imports + 1, import))
    /\ UNCHANGED <<defmap, gained, diagnostics, resolved_imports, unexpanded_macros,
                   mod_dirs, i, pc, resolved, res, stuck, n_defs, n_macro_defs, n_calls>>

\* RawItemKind::Import of the `#[macro_use] extern crate` item that the first
\* pass hoisted: the second pass queues it like any import.
CollectHoistedImport ==
    /\ UNCHANGED others
    /\ UNCHANGED late
    /\ Collecting
    /\ Top.hoist.pending
    /\ unresolved_imports' =
           Append(unresolved_imports,
                  ImportDirective(Top.module_id, Top.hoist.import_id, Top.hoist.import,
                                  Unresolved))
    /\ stack' = [Advance(stack) EXCEPT ![Len(stack)].hoist = NoHoist]
    /\ input' = Append(input, ImportItem(Top.module_id, Top.hoist.import_id,
                                         Top.hoist.import))
    /\ UNCHANGED <<defmap, gained, diagnostics, resolved_imports, unexpanded_macros,
                   mod_dirs, i, pc, resolved, res, stuck, counters>>

\* collect_module, had the child's collect written no entry of mod_dirs.
CollectModuleNoDir(name, is_macro_use, hoist) ==
    /\ UNCHANGED others
    /\ UNCHANGED late
    /\ Collecting
    /\ LET child == Len(modules) + 1
       IN  /\ Leave(CollectPrologue(PushChildModule(CS, Top.module_id, name), child, hoist), pc)
           /\ mod_dirs' = mod_dirs
           /\ stack' = Append(Advance(stack), Frame(child, is_macro_use, hoist))
    /\ n_imports' = IF hoist.pending THEN n_imports + 1 ELSE n_imports
    /\ n_items' = IF hoist.pending THEN n_items + 2 ELSE n_items + 1
    /\ input' = Append(input, ModuleItem(Top.module_id, name, is_macro_use,
                                         Len(modules) + 1))
    /\ UNCHANGED <<diagnostics, directives, i, resolved, res, stuck,
                   n_defs, n_macro_defs, n_calls>>

\* RawItemKind::Module, inline or out of line with its file found:
\* collect_module allocates the child and starts collecting its items.
CollectModule(name, is_macro_use, hoist) ==
    /\ UNCHANGED others
    /\ UNCHANGED late
    /\ Collecting
    /\ LET child == Len(modules) + 1
       IN  /\ Leave(CollectPrologue(PushChildModule(CS, Top.module_id, name), child, hoist), pc)
           /\ mod_dirs' = mod_dirs \cup {child}
           /\ stack' = Append(Advance(stack), Frame(child, is_macro_use, hoist))
    /\ n_imports' = IF hoist.pending THEN n_imports + 1 ELSE n_imports
    /\ n_items' = IF hoist.pending THEN n_items + 2 ELSE n_items + 1
    /\ input' = Append(input, ModuleItem(Top.module_id, name, is_macro_use,
                                         Len(modules) + 1))
    /\ UNCHANGED <<diagnostics, directives, i, resolved, res, stuck,
                   n_defs, n_macro_defs, n_calls>>

\* collect_module pushing the child of a declaration whose file is missing.
CollectUnresolvedModuleDeclared(name) ==
    /\ UNCHANGED others
    /\ UNCHANGED late
    /\ Collecting
    /\ Leave(PushChildModule(CS, Top.module_id, name), pc)
    /\ diagnostics' = Append(diagnostics, [module |-> Top.module_id, name |-> name])
    /\ stack' = Advance(stack)
    /\ n_items' = n_items + 1
    /\ input' = Append(input, UnresolvedModuleItem(Top.module_id, name))
    /\ UNCHANGED <<directives, mod_dirs, i, resolved, res, stuck,
                   n_defs, n_imports, n_macro_defs, n_calls>>

\* RawItemKind::Module, out of line, its file not found: a diagnostic.
CollectUnresolvedModule(name) ==
    /\ UNCHANGED others
    /\ UNCHANGED late
    /\ Collecting
    /\ diagnostics' = Append(diagnostics, [module |-> Top.module_id, name |-> name])
    /\ stack' = Advance(stack)
    /\ n_items' = n_items + 1
    /\ input' = Append(input, UnresolvedModuleItem(Top.module_id, name))
    /\ UNCHANGED <<defmap, gained, directives, mod_dirs, i, pc, resolved, res, stuck,
                   n_defs, n_imports, n_macro_defs, n_calls>>

\* The end of a child module's item list: collect_module returns to the
\* parent's list, after import_all_legacy_macros for a #[macro_use] module.
EndModule ==
    /\ UNCHANGED others
    /\ UNCHANGED late
    /\ Collecting
    /\ Len(stack) > 1
    /\ ~Top.hoist.pending
    /\ Leave(IF Top.is_macro_use
             THEN ImportAllLegacyMacros(CS, stack[Len(stack) - 1].module_id, Top.module_id)
             ELSE CS, pc)
    /\ stack' = SubSeq(stack, 1, Len(stack) - 1)
    /\ UNCHANGED input
    /\ UNCHANGED <<diagnostics, directives, mod_dirs, i, resolved, res, stuck, counters>>

\* find_builtin_macro: the builtin macro of a recognised name, defined by the
\* item ast_id; no macro for another name.
RecognisedBuiltins == {"b"}
FindBuiltinMacro(name, ast_id) ==
    IF name \in RecognisedBuiltins THEN Entity("builtin", ast_id) ELSE None

\* collect_macro, had it looked at the macro_rules path before the builtin
\* flag.
IsBuiltinMacroAfterRules(mac) ==
    /\ ~IsMacroRules(mac.path)
    /\ mac.builtin
    /\ mac.name # NoName
    /\ FindBuiltinMacro(mac.name, 0) # None

\* collect_macro, the test of case 0: the item is flagged builtin, named, and
\* its name is one find_builtin_macro knows.
IsBuiltinMacro(mac) ==
    /\ mac.builtin
    /\ mac.name # NoName
    /\ FindBuiltinMacro(mac.name, 0) # None

\* collect_macro, case 0: a builtin macro is defined like a macro_rules! one
\* and queues nothing.
CollectBuiltinMacro(mac) ==
    /\ UNCHANGED others
    /\ UNCHANGED late
    /\ Collecting
    /\ IsBuiltinMacro(mac)
    /\ Leave(DefineMacro(CS, Top.module_id, mac.name,
                         FindBuiltinMacro(mac.name, n_macro_defs + 1), mac.export), pc)
    /\ n_macro_defs' = n_macro_defs + 1
    /\ input' = Append(input,
                       MacroItem(Item("builtin", Top.module_id, mac.name, NoImportData,
                                      mac.export, FALSE,
                                      FindBuiltinMacro(mac.name, n_macro_defs + 1),
                                      modules[Top.module_id].legacy_macros[mac.name]),
                                 mac))
    /\ stack' = Advance(stack)
    /\ n_items' = n_items + 1
    /\ UNCHANGED <<diagnostics, directives, mod_dirs, i, resolved, res, stuck,
                   n_defs, n_imports, n_calls>>

\* collect_macro, case 1: a macro_rules! item defines the macro, when named.
CollectMacroRules(mac) ==
    /\ UNCHANGED others
    /\ UNCHANGED late
    /\ Collecting
    /\ ~IsBuiltinMacro(mac)
    /\ IsMacroRules(mac.path)
    /\ IF mac.name # NoName
       THEN /\ Leave(DefineMacro(CS, Top.module_id, mac.name,
                                 Entity("macro", n_macro_defs + 1), mac.export), pc)
            /\ n_macro_defs' = n_macro_defs + 1
            /\ input' = Append(input,
                               MacroItem(RulesItem(Top.module_id, mac.name, mac.export,
                                                   Entity("macro", n_macro_defs + 1),
                                                   modules[Top.module_id].legacy_macros[mac.name]),
                                         mac))
       ELSE /\ UNCHANGED <<defmap, gained, pc, n_macro_defs>>
            /\ input' = Append(input,
                               MacroItem(RulesItem(Top.module_id, NoName, mac.export,
                                                   None, None), mac))
    /\ stack' = Advance(stack)
    /\ n_items' = n_items + 1
    /\ UNCHANGED <<diagnostics, directives, mod_dirs, i, resolved, res, stuck,
                   n_defs, n_imports, n_calls>>

\* The directive collect_macro queues for a call: case 2, a bare name found
\* in the module's legacy scope, is bound to that macro; case 3 is left to
\* path resolution, a bare name rewritten to self::name.
CallDirective(module_id, ast_id, path) ==
    IF IsIdent(path) /\ modules[module_id].legacy_macros[path.segments[1]] # None
    THEN MacroDirective(module_id, ast_id, path,
                        modules[module_id].legacy_macros[path.segments[1]])
    ELSE MacroDirective(module_id, ast_id,
                        IF IsIdent(path) THEN Path("Self", path.segments) ELSE path, None)

\* collect_macro, cases 2 and 3: a macro invocation.
CollectMacroCall(mac) ==
    /\ UNCHANGED others
    /\ UNCHANGED late
    /\ Collecting
    /\ ~IsBuiltinMacro(mac)
    /\ ~IsMacroRules(mac.path)
    /\ unexpanded_macros' =
           Append(unexpanded_macros, CallDirective(Top.module_id, n_calls + 1, mac.path))
    /\ stack' = Advance(stack)
    /\ n_calls' = n_calls + 1
    /\ n_items' = n_items + 1
    /\ input' = Append(input, MacroItem(CallItem(Top.module_id, n_calls + 1, mac.path), mac))
    /\ UNCHANGED <<defmap, gained, diagnostics, unresolved_imports, resolved_imports,
                   mod_dirs, i, pc, resolved, res, stuck, n_defs, n_imports, n_macro_defs>>

\* The expansions collected so far, with one more that has ended.
EndExpansion ==
    IF Len(input) = exps.start THEN [exps EXCEPT !.empty = @ + 1]
    ELSE [exps EXCEPT !.after_empty = @ \/ exps.empty > 0]

\* The end of an item list, had the end of an expansion queued the legacy
\* call of the last pending directive for expansion at once.
EndCollectRetry ==
    /\ UNCHANGED others
    /\ UNCHANGED unexpanded_attribute_macros
    /\ Collecting
    /\ Len(stack) = 1
    /\ ~Top.hoist.pending
    /\ stack' = <<>>
    /\ pc' = IF pc = "collect_root" THEN "loop" ELSE "expand"
    /\ exps' = IF pc = "collect_root" THEN exps ELSE EndExpansion
    /\ IF /\ pc = "collect_expansion"
          /\ unexpanded_macros # <<>>
          /\ unexpanded_macros[Len(unexpanded_macros)].legacy # None
       THEN /\ unexpanded_macros' = SubSeq(unexpanded_macros, 1, Len(unexpanded_macros) - 1)
            /\ resolved' =
                   Append(resolved,
                          [module_id |-> unexpanded_macros[Len(unexpanded_macros)].module_id,
                           macro |-> unexpanded_macros[Len(unexpanded_macros)].legacy,
                           ast_id |-> unexpanded_macros[Len(unexpanded_macros)].ast_id])
       ELSE UNCHANGED <<unexpanded_macros, resolved>>
    /\ UNCHANGED input
    /\ UNCHANGED <<defmap, gained, diagnostics, unresolved_imports, resolved_imports,
                   mod_dirs, i, res, stuck, counters>>

\* The end of an item list, had an expansion without items ended collect.
EndCollectFatal ==
    /\ UNCHANGED others
    /\ UNCHANGED unexpanded_attribute_macros
    /\ Collecting
    /\ Len(stack) = 1
    /\ ~Top.hoist.pending
    /\ stack' = <<>>
    /\ pc' = IF pc = "collect_root" THEN "loop"
             ELSE IF Len(input) = exps.start THEN "panicked" ELSE "expand"
    /\ exps' = IF pc = "collect_root" THEN exps ELSE EndExpansion
    /\ UNCHANGED input
    /\ UNCHANGED <<defmap, gained, diagnostics, directives, mod_dirs, i, resolved, res,
                   stuck, counters>>

\* The end of the item list of the outermost ModCollector::collect: the
\* root's returns to collect, an expansion's to resolve_macros.  An
\* expansion that failed has no items: its list ends at once.
EndCollect ==
    /\ UNCHANGED others
    /\ UNCHANGED unexpanded_attribute_macros
    /\ Collecting
    /\ Len(stack) = 1
    /\ ~Top.hoist.pending
    /\ stack' = <<>>
    /\ pc' = IF pc = "collect_root" THEN "loop" ELSE "expand"
    /\ exps' = IF pc = "collect_root" THEN exps ELSE EndExpansion
    /\ UNCHANGED input
    /\ UNCHANGED <<defmap, gained, diagnostics, directives, mod_dirs, i, resolved, res,
                   stuck, counters>>

\* The lists resolve_imports leaves.
SetImports(ir, next_pc) ==
    /\ Leave(ir.cs, next_pc)
    /\ unresolved_imports' = ir.unresolved
    /\ resolved_imports' = ir.resolved

IR == [cs |-> CS, unresolved |-> unresolved_imports, resolved |-> resolved_imports]

\* An outer iteration that starts without asking the database.
LoopResolveImportsUnchecked ==
    /\ UNCHANGED others
    /\ UNCHANGED late
    /\ pc = "loop"
    /\ SetImports(ResolveImports(IR), "macros")
    /\ UNCHANGED input
    /\ UNCHANGED <<diagnostics, unexpanded_macros, mod_dirs, i, stack, resolved, res,
                   stuck, counters>>

\* The start of an outer iteration: check_canceled, which unwinds out of
\* collect when the query is canceled, then resolve_imports.
LoopResolveImports ==
    /\ UNCHANGED others
    /\ UNCHANGED late
    /\ pc = "loop"
    /\ IF canceled
       THEN /\ pc' = "canceled"
            /\ UNCHANGED <<defmap, gained, unresolved_imports, resolved_imports>>
       ELSE SetImports(ResolveImports(IR), "macros")
    /\ UNCHANGED input
    /\ UNCHANGED <<diagnostics, unexpanded_macros, mod_dirs, i, stack, resolved, res,
                   stuck, counters>>

\* The surrounding system cancels the query while collect runs.
Cancel ==
    /\ pc \notin {"done", "canceled", "panicked"}
    /\ ~canceled
    /\ canceled' = TRUE
    /\ UNCHANGED <<deps, expander, collector>>

\* resolve_macros, had it looked a legacy call's name up in the legacy scope
\* again.
MacroResolutionLate(cs, directive) ==
    IF directive.legacy # None
    THEN cs.modules[directive.module_id].legacy_macros[directive.path.segments[1]]
    ELSE ResolvePathFpWithMacro(cs, directive.module_id, directive.path).resolved_def.macros

\* Whether resolve_macros resolves a directive, and to which definition.
MacroResolution(cs, directive) ==
    IF directive.legacy # None THEN directive.legacy
    ELSE ResolvePathFpWithMacro(cs, directive.module_id, directive.path).resolved_def.macros

\* resolve_macros up to its last loop, had a directive that resolves stayed
\* in unexpanded_macros.
RECURSIVE RetainMacrosKeep(_, _, _)
RetainMacrosKeep(cs, macros, k) ==
    IF k > Len(macros) THEN [retained |-> <<>>, resolved |-> <<>>]
    ELSE LET def == MacroResolution(cs, macros[k])
             rest == RetainMacrosKeep(cs, macros, k + 1)
         IN  IF def # None
             THEN [retained |-> <<macros[k]>> \o rest.retained,
                   resolved |-> <<[module_id |-> macros[k].module_id, macro |-> def,
                                   ast_id |-> macros[k].ast_id]>> \o rest.resolved]
             ELSE [retained |-> <<macros[k]>> \o rest.retained, resolved |-> rest.resolved]

\* resolve_macros up to its last loop: the directives that resolve leave
\* unexpanded_macros, in order, for expansion.
RECURSIVE RetainMacros(_, _, _)
RetainMacros(cs, macros, k) ==
    IF k > Len(macros) THEN [retained |-> <<>>, resolved |-> <<>>]
    ELSE LET def == MacroResolution(cs, macros[k])
             rest == RetainMacros(cs, macros, k + 1)
         IN  IF def # None
             THEN [retained |-> rest.retained,
                   resolved |-> <<[module_id |-> macros[k].module_id, macro |-> def,
                                   ast_id |-> macros[k].ast_id]>> \o rest.resolved]
             ELSE [retained |-> <<macros[k]>> \o rest.retained, resolved |-> rest.resolved]

\* The names register_builtin! gives a derive expander, in its order.
BuiltinDerives ==
    <<"Copy", "Clone", "Default", "Debug", "Hash", "Ord", "PartialOrd", "Eq", "PartialEq">>

\* find_builtin_derive, had it an expander for every name.
FindBuiltinDeriveAny(ident) ==
    IF \E k \in 1..Len(BuiltinDerives) : BuiltinDerives[k] = ident
    THEN Entity("derive", CHOOSE k \in 1..Len(BuiltinDerives) : BuiltinDerives[k] = ident)
    ELSE Entity("derive", Len(BuiltinDerives))

\* find_builtin_derive
FindBuiltinDerive(ident) ==
    IF \E k \in 1..Len(BuiltinDerives) : BuiltinDerives[k] = ident
    THEN Entity("derive", CHOOSE k \in 1..Len(BuiltinDerives) : BuiltinDerives[k] = ident)
    ELSE None

\* resolve_attribute_macro
ResolveAttributeMacro(path) ==
    IF IsIdent(path) THEN FindBuiltinDerive(path.segments[1]) ELSE None

Unresolvable(directive) == ResolveAttributeMacro(directive.path) = None
Resolvable(directive) == ~Unresolvable(directive)

\* resolve_macros on the attribute macros: the calls of those that resolve.
RECURSIVE AttributeCalls(_, _)
AttributeCalls(list, k) ==
    IF k > Len(list) THEN <<>>
    ELSE <<[module_id |-> list[k].module_id,
            macro |-> ResolveAttributeMacro(list[k].path),
            ast_id |-> list[k].ast_id]>> \o AttributeCalls(list, k + 1)

ResolveMacros ==
    /\ UNCHANGED others
    /\ UNCHANGED exps
    /\ pc = "macros"
    /\ LET r == RetainMacros(CS, unexpanded_macros, 1)
           calls == AttributeCalls(SelectSeq(unexpanded_attribute_macros, Resolvable), 1)
       IN  /\ unexpanded_macros' = r.retained
           /\ unexpanded_attribute_macros' =
                  SelectSeq(unexpanded_attribute_macros, Unresolvable)
           /\ resolved' = r.resolved \o calls
           /\ res' = (r.resolved \o calls = <<>>)
    /\ pc' = "expand"
    /\ UNCHANGED input
    /\ UNCHANGED <<defmap, gained, diagnostics, unresolved_imports, resolved_imports,
                   mod_dirs, i, stack, stuck, counters>>

\* resolve_macros' last loop: collect_macro_expansion for the next resolved
\* call starts ModCollector::collect on the expansion's items.
ExpandMacro(hoist) ==
    /\ UNCHANGED others
    /\ UNCHANGED unexpanded_attribute_macros
    /\ exps' = [exps EXCEPT !.start = Len(input)]
    /\ pc = "expand"
    /\ resolved # <<>>
    /\ LET call == Head(resolved)
       IN  /\ IF call.module_id \in mod_dirs
              THEN Leave(CollectPrologue(CS, call.module_id, hoist), "collect_expansion")
              ELSE Leave([CS EXCEPT !.panic = TRUE], "collect_expansion")
           /\ stack' = <<Frame(call.module_id, FALSE, hoist)>>
    /\ resolved' = Tail(resolved)
    /\ n_imports' = IF hoist.pending THEN n_imports + 1 ELSE n_imports
    /\ n_items' = IF hoist.pending THEN n_items + 1 ELSE n_items
    /\ UNCHANGED input
    /\ UNCHANGED <<diagnostics, directives, mod_dirs, i, res, stuck,
                   n_defs, n_macro_defs, n_calls>>

\* The tail of the loop body, had it logged at the cap without leaving the
\* loop.
FinishIterationNoBreak ==
    /\ UNCHANGED others
    /\ UNCHANGED late
    /\ pc = "expand"
    /\ resolved = <<>>
    /\ IF res
       THEN /\ pc' = "post"
            /\ UNCHANGED <<i, stuck>>
       ELSE /\ i' = i + 1
            /\ stuck' = (stuck \/ i + 1 = StuckLimit)
            /\ pc' = "loop"
    /\ UNCHANGED <<defmap, gained, diagnostics, directives, mod_dirs, stack, resolved,
                   res, counters, input>>

\* The end of resolve_macros and the tail of the loop body: stop at the
\* fixed point, or count the iteration and stop at the cap.
FinishIteration ==
    /\ UNCHANGED others
    /\ UNCHANGED late
    /\ pc = "expand"
    /\ resolved = <<>>
    /\ IF res
       THEN /\ pc' = "post"
            /\ UNCHANGED <<i, stuck>>
       ELSE /\ i' = i + 1
            /\ stuck' = (i + 1 = StuckLimit)
            /\ pc' = IF i + 1 = StuckLimit THEN "post" ELSE "loop"
    /\ UNCHANGED input
    /\ UNCHANGED <<defmap, gained, diagnostics, directives, mod_dirs, stack, resolved,
                   res, counters>>

\* The requeued imports, had collect requeued every recorded import.
ReopenedAll(list) ==
    [k \in 1..Len(list) |-> [list[k] EXCEPT !.status = Unresolved]]

\* After the loop: the indeterminate imports are queued again, unresolved.
Reopened(list) ==
    LET partial_resolved == SelectSeq(list, LAMBDA d : d.status.tag = "Indeterminate")
    IN  [k \in 1..Len(partial_resolved) |->
            [partial_resolved[k] EXCEPT !.status = Unresolved]]

ReopenIndeterminate ==
    /\ UNCHANGED others
    /\ UNCHANGED late
    /\ pc = "post"
    /\ unresolved_imports' = unresolved_imports \o Reopened(resolved_imports)
    /\ pc' = "final_imports"
    /\ UNCHANGED input
    /\ UNCHANGED <<defmap, gained, diagnostics, resolved_imports, unexpanded_macros,
                   mod_dirs, i, stack, resolved, res, stuck, counters>>

\* ... and resolve_imports runs once more.
FinalResolveImports ==
    /\ UNCHANGED others
    /\ UNCHANGED late
    /\ pc = "final_imports"
    /\ SetImports(ResolveImports(IR), "record")
    /\ UNCHANGED input
    /\ UNCHANGED <<diagnostics, unexpanded_macros, mod_dirs, i, stack, resolved, res,
                   stuck, counters>>

\* The imports still unresolved are taken out of the list and recorded.
RECURSIVE RecordAll(_, _, _)
RecordAll(cs, list, k) ==
    IF k > Len(list) THEN cs
    ELSE RecordAll(RecordResolvedImport(cs, list[k]), list, k + 1)

\* The last step, had it left the recorded imports in the pending list.
RecordUnresolvedKeep ==
    /\ UNCHANGED others
    /\ UNCHANGED late
    /\ pc = "record"
    /\ Leave(RecordAll(CS, unresolved_imports, 1), "done")
    /\ unresolved_imports' = unresolved_imports
    /\ UNCHANGED input
    /\ UNCHANGED <<diagnostics, resolved_imports, unexpanded_macros, mod_dirs,
                   i, stack, resolved, res, stuck, counters>>

RecordUnresolved ==
    /\ UNCHANGED others
    /\ UNCHANGED late
    /\ pc = "record"
    /\ Leave(RecordAll(CS, unresolved_imports, 1), "done")
    /\ unresolved_imports' = <<>>
    /\ UNCHANGED input
    /\ UNCHANGED <<diagnostics, resolved_imports, unexpanded_macros, mod_dirs,
                   i, stack, resolved, res, stuck, counters>>

\* --------------------------------------------------------------- the input

\* Import items.
Use(path) == ImportData(path, NoName, FALSE, FALSE, FALSE, FALSE)
UseAs(path, alias) == ImportData(path, alias, FALSE, FALSE, FALSE, FALSE)
UseGlob(path) == ImportData(path, NoName, TRUE, FALSE, FALSE, FALSE)
PreludeImport(path) == ImportData(path, NoName, TRUE, TRUE, FALSE, FALSE)
ExternCrate(name) == ImportData(Path("Plain", <<name>>), NoName, FALSE, FALSE, TRUE, FALSE)
MacroUseExternCrate(name) ==
    ImportData(Path("Plain", <<name>>), NoName, FALSE, FALSE, TRUE, TRUE)

\* Macro items: macro_rules! definitions and calls.
MacroRules(name, export) == MacroData(MacroRulesPath, name, export)
MacroCall(path) == MacroData(path, NoName, FALSE)

\* The steps of collect that consume no item.
Driver ==
    \/ EndModule
    \/ EndCollect
    \/ LoopResolveImports
    \/ ResolveMacros
    \/ FinishIteration
    \/ ReopenIndeterminate
    \/ FinalResolveImports
    \/ RecordUnresolved

\* Crates of definitions, nested modules, glob imports among them, and one
\* exported macro whose expansion can add items late.
ScopesDefs == {<<"a", "fn">>, <<"b", "struct">>, <<"a", "enum">>}
ScopesImports ==
    { UseGlob(Path("Plain", <<"a">>)),
      UseGlob(Path("Super", <<>>)),
      UseAs(Path("Plain", <<"a", "b">>), "a") }
ScopesMacros == { MacroRules("b", TRUE) }
ScopesCalls == { MacroCall(Path("Plain", <<"b">>)) }

NextScopes ==
    \/ StartCollect(NoHoist)
    \/ \E d \in ScopesDefs : n_items < MaxItemsScopes /\ CollectDef(d[1], d[2])
    \/ \E import \in ScopesImports : n_items < MaxItemsScopes /\ CollectImport(import)
    \/ \E name \in {"a"} :
           /\ n_items < MaxItemsScopes /\ Len(modules) < MaxModules
           /\ CollectModule(name, FALSE, NoHoist)
    \/ \E mac \in ScopesMacros : n_items < MaxItemsScopes /\ CollectMacroRules(mac)
    \/ \E mac \in ScopesCalls : n_items < MaxItemsScopes /\ CollectMacroCall(mac)
    \/ ExpandMacro(NoHoist)
    \/ Driver

SpecScopes == Init /\ [][NextScopes]_vars

\* Crates that import from the dependency and from their own modules, by
\* glob and by name, some imports never resolving; one exported macro.
ImportsImports ==
    { UseGlob(Path("Plain", <<DepName>>)),
      PreludeImport(Path("Plain", <<DepName>>)),
      Use(Path("Plain", <<DepName, "a">>)),
      UseAs(Path("Plain", <<"a", "b">>), "a"),
      Use(Path("Plain", <<"a", "b">>)),
      UseGlob(Path("Plain", <<"a", "b">>)) }

NextImports ==
    \/ StartCollect(NoHoist)
    \/ \E d \in {<<"a", "fn">>} : n_items < MaxItemsImports /\ CollectDef(d[1], d[2])
    \/ \E import \in ImportsImports : n_items < MaxItemsImports /\ CollectImport(import)
    \/ \E name \in {"a"} :
           /\ n_items < MaxItemsImports /\ Len(modules) < MaxModules
           /\ CollectModule(name, FALSE, NoHoist)
    \/ \E mac \in ScopesMacros : n_items < MaxItemsImports /\ CollectMacroRules(mac)
    \/ \E mac \in ScopesCalls : n_items < MaxItemsImports /\ CollectMacroCall(mac)
    \/ ExpandMacro(NoHoist)
    \/ Driver

SpecImports == Init /\ [][NextImports]_vars


\* Crates of macro_rules! definitions, exported or not, in the root and in a
\* module with or without #[macro_use], calls of them, imports naming them,
\* and `#[macro_use] extern crate dep` in the root.
MacrosMacros == { MacroRules("b", TRUE), MacroRules("b", FALSE) }
MacrosImports ==
    { UseAs(Path("Plain", <<"a", "b">>), "b"),
      Use(Path("Plain", <<"b">>)),
      Use(Path("Crate", <<"b">>)) }
MacrosHoists == { NoHoist, Hoist(1, MacroUseExternCrate(DepName)) }

NextMacros ==
    \/ \E hoist \in MacrosHoists : StartCollect(hoist)
    \/ CollectHoistedImport
    \/ \E import \in MacrosImports : n_items < MaxItemsMacros /\ CollectImport(import)
    \/ \E name \in {"a"} : \E is_macro_use \in BOOLEAN :
           /\ n_items < MaxItemsMacros /\ Len(modules) < MaxModules
           /\ CollectModule(name, is_macro_use, NoHoist)
    \/ \E mac \in MacrosMacros : n_items < MaxItemsMacros /\ CollectMacroRules(mac)
    \/ \E mac \in ScopesCalls : n_items < MaxItemsMacros /\ CollectMacroCall(mac)
    \/ ExpandMacro(NoHoist)
    \/ Driver

SpecMacros == Init /\ [][NextMacros]_vars

\* Crates whose root list is drawn from macro_rules! b, a call of it and
\* imports of self::a, with one definition and one call at most; every
\* expansion of b is nothing, an invocation of b, or the function a.
StuckRootItem == pc = "collect_root" /\ Top.len < MaxItemsStuck
StuckExpansionItem == pc = "collect_expansion" /\ Top.len = 0

NextStuck ==
    \/ StartCollect(NoHoist)
    \/ StuckRootItem /\ n_macro_defs = 0 /\ CollectMacroRules(MacroRules("b", FALSE))
    \/ StuckRootItem /\ n_calls = 0 /\ CollectMacroCall(MacroCall(Path("Plain", <<"b">>)))
    \/ StuckRootItem /\ CollectImport(Use(Path("Self", <<"a">>)))
    \/ StuckExpansionItem /\ CollectMacroCall(MacroCall(Path("Plain", <<"b">>)))
    \/ StuckExpansionItem /\ CollectDef("a", "fn")
    \/ ExpandMacro(NoHoist)
    \/ EndCollect
    \/ LoopResolveImports
    \/ ResolveMacros
    \/ FinishIteration
    \/ ReopenIndeterminate
    \/ FinalResolveImports
    \/ RecordUnresolved

SpecStuck == Init /\ [][NextStuck]_vars

\* The crates of SpecStuck with a few calls of b at most, collected while the
\* surrounding system may cancel the query at any moment.
CancelRootItem == pc = "collect_root" /\ Top.len < MaxItemsCancel
CancelExpansionItem == pc = "collect_expansion" /\ Top.len = 0

NextCancel ==
    \/ StartCollect(NoHoist)
    \/ CancelRootItem /\ n_macro_defs = 0 /\ CollectMacroRules(MacroRules("b", FALSE))
    \/ CancelRootItem /\ n_calls = 0 /\ CollectMacroCall(MacroCall(Path("Plain", <<"b">>)))
    \/ CancelRootItem /\ CollectImport(Use(Path("Self", <<"a">>)))
    \/ /\ CancelExpansionItem /\ n_calls < MaxCallsCancel
       /\ CollectMacroCall(MacroCall(Path("Plain", <<"b">>)))
    \/ CancelExpansionItem /\ CollectDef("a", "fn")
    \/ ExpandMacro(NoHoist)
    \/ EndCollect
    \/ LoopResolveImports
    \/ ResolveMacros
    \/ FinishIteration
    \/ ReopenIndeterminate
    \/ FinalResolveImports
    \/ RecordUnresolved
    \/ Cancel

SpecCancel == Init /\ [][NextCancel]_vars


\* ------------------------------------------------------ collect_defs: seeding

\* The def map collect_defs is given, before any dependency is looked at.
InitSeed ==
    /\ modules = <<ModuleData(0, EmptyLegacy)>>
    /\ glob_imports = <<<<>>>>
    /\ extern_prelude = [n \in AllNames |-> None]
    /\ prelude = None
    /\ diagnostics = <<>>
    /\ unresolved_imports = <<>>
    /\ resolved_imports = <<>>
    /\ unexpanded_macros = <<>>
    /\ mod_dirs = {}
    /\ i = 0
    /\ pc = "seed"
    /\ stack = <<>>
    /\ resolved = <<>>
    /\ res = TRUE
    /\ stuck = FALSE
    /\ n_defs = 0
    /\ n_imports = 0
    /\ n_macro_defs = 0
    /\ n_calls = 0
    /\ n_items = 0
    /\ input = <<>>
    /\ gained = {}
    /\ deps = <<>>
    /\ canceled = FALSE
    /\ current_file_id = SourceFile
    /\ hygiene = HygieneNew(SourceFile)
    /\ marks = <<>>
    /\ panicking = FALSE
    /\ exp = [ops |-> 0, nested |-> TRUE, saved |-> <<>>, entered |-> 0, exits |-> 0,
              dropped_mark_panics |-> 0, last |-> "new"]
    /\ unexpanded_attribute_macros = <<>>
    /\ exps = [start |-> 0, empty |-> 0, after_empty |-> FALSE]

\* The root module of a crate of the crate graph and the module its def map
\* exposes as prelude, if it exposes one.
CrateRoot(crate_id) == Entity("xmodule", 2 * crate_id - 1)
CratePrelude(crate_id) == Entity("xmodule", 2 * crate_id)

\* One turn of the loop over the dependencies that keeps the first prelude.
SeedDependencyKeepFirst(dep) ==
    /\ pc = "seed"
    /\ extern_prelude' = [extern_prelude EXCEPT ![dep.name] = dep.root]
    /\ prelude' = IF dep.prelude # None /\ prelude = None THEN dep.prelude ELSE prelude
    /\ deps' = Append(deps, dep)
    /\ UNCHANGED <<modules, glob_imports, diagnostics, directives, mod_dirs, control,
                   counters, input, gained, canceled, expander, late>>

\* One turn of the loop over the dependencies.
SeedDependency(dep) ==
    /\ pc = "seed"
    /\ extern_prelude' = [extern_prelude EXCEPT ![dep.name] = dep.root]
    /\ prelude' = IF dep.prelude # None THEN dep.prelude ELSE prelude
    /\ deps' = Append(deps, dep)
    /\ UNCHANGED <<modules, glob_imports, diagnostics, directives, mod_dirs, control,
                   counters, input, gained, canceled, expander, late>>

\* The loop is over: the DefCollector is built around the def map.
EndSeed ==
    /\ pc = "seed"
    /\ pc' = "start"
    /\ UNCHANGED <<defmap, diagnostics, directives, mod_dirs, i, stack, resolved, res,
                   stuck, counters, input, gained, others, late>>

\* Crate graphs of up to MaxDeps dependencies under distinct names, on
\* crates that expose a prelude or none.
NextSeed ==
    \/ \E name \in AllNames : \E crate_id \in 1..MaxDeps : \E exposes \in BOOLEAN :
           /\ Len(deps) < MaxDeps
           /\ \A k \in 1..Len(deps) :
                  /\ deps[k].name # name
                  /\ deps[k].root = CrateRoot(crate_id) =>
                         (deps[k].prelude # None) = exposes
           /\ SeedDependency(Dependency(name, CrateRoot(crate_id),
                                        IF exposes THEN CratePrelude(crate_id) ELSE None))
    \/ EndSeed

SpecSeed == InitSeed /\ [][NextSeed]_vars



\* Crates that are a chain of nested modules `a`, each list `use self::a::*;`
\* followed by the child `mod a`, the innermost list a function b or nothing.
NextChain ==
    \/ StartCollect(NoHoist)
    \/ /\ Collecting /\ Top.len = 0 /\ Len(modules) < MaxChainModules
       /\ CollectImport(UseGlob(Path("Self", <<"a">>)))
    \/ /\ Collecting /\ Top.len = 1 /\ input[Len(input)].op = "import"
       /\ CollectModule("a", FALSE, NoHoist)
    \/ Collecting /\ Top.len = 0 /\ CollectDef("b", "fn")
    \/ Driver

SpecChain == Init /\ [][NextChain]_vars


\* Crates of functions, structs, inline modules and declarations `mod a;`,
\* `mod b;` whose file is missing, in the root and in the modules.
NextModules ==
    \/ StartCollect(NoHoist)
    \/ \E d \in {<<"a", "fn">>, <<"b", "struct">>} :
           n_items < MaxItemsModules /\ CollectDef(d[1], d[2])
    \/ \E name \in {"a", "b"} :
           /\ n_items < MaxItemsModules /\ Len(modules) < MaxModules
           /\ CollectModule(name, FALSE, NoHoist)
    \/ \E name \in {"a", "b"} : n_items < MaxItemsModules /\ CollectUnresolvedModule(name)
    \/ Driver

SpecModules == Init /\ [][NextModules]_vars


\* Crates of structs and enums with derive attributes, in the root and in
\* one inline module; a derive's expansion is nothing or impls.
MaxItemsDerive == 2
DeriveNames == {"Clone", "PartialEq", "Serialize"}
DeriveLists ==
    {<<d>> : d \in DeriveNames} \cup {<<d, e>> : d \in DeriveNames, e \in DeriveNames}

NextDerive ==
    \/ StartCollect(NoHoist)
    \/ \E d \in {<<"a", "struct">>, <<"b", "enum">>} : \E derives \in DeriveLists :
           /\ n_items < MaxItemsDerive /\ pc = "collect_root"
           /\ CollectDerivedDef(d[1], d[2], derives)
    \/ /\ n_items < MaxItemsDerive /\ Len(modules) < 2
       /\ CollectModule("a", FALSE, NoHoist)
    \/ n_items < MaxItemsDerive /\ pc = "collect_expansion" /\ CollectImpl
    \/ ExpandMacro(NoHoist)
    \/ Driver

SpecDerive == Init /\ [][NextDerive]_vars

\* C22: a derive directive whose name is none of the nine builtin derives
\* stays pending from its creation on, in its place among such directives;
\* no diagnostic is recorded for it; and a resolve_macros pass reports
\* progress exactly when it resolved a macro call or a builtin derive, so a
\* pass that meets only unknown derives reports none and the loop ends.
NineDerives ==
    {"Copy", "Clone", "Default", "Debug", "Hash", "Ord", "PartialOrd", "Eq", "PartialEq"}
UnknownDerive(directive) == directive.path.segments[1] \notin NineDerives
Stays(before, after) ==
    /\ Len(before) <= Len(after)
    /\ SubSeq(after, 1, Len(before)) = before
UnknownDeriveStaysPending ==
    [][/\ Stays(SelectSeq(unexpanded_attribute_macros, UnknownDerive),
                SelectSeq(unexpanded_attribute_macros', UnknownDerive))
       /\ diagnostics' = <<>>
       /\ (pc = "macros" /\ pc' # pc) =>
              /\ unexpanded_attribute_macros' =
                     SelectSeq(unexpanded_attribute_macros, UnknownDerive)
              /\ Len(resolved') =
                     (Len(unexpanded_macros) - Len(unexpanded_macros'))
                         + (Len(unexpanded_attribute_macros)
                                - Len(unexpanded_attribute_macros'))
              /\ res' = (resolved' = <<>>)
       /\ (pc = "expand" /\ pc' = "post") =>
              /\ unexpanded_attribute_macros' = unexpanded_attribute_macros
              /\ \A k \in 1..Len(unexpanded_attribute_macros) :
                     UnknownDerive(unexpanded_attribute_macros[k])]_vars
UnknownDeriveStaysPendingWitness ==
    /\ pc = "done"
    /\ i >= 1
    /\ \E k \in 1..Len(unexpanded_attribute_macros) :
           unexpanded_attribute_macros[k].path = Path("Plain", <<"Serialize">>)
    /\ \E m \in 1..Len(modules) : modules[m].impls > 0
    /\ diagnostics = <<>>

\* C23: when the outer loop ends below the cap, one more pass would change
\* nothing: resolve_imports would leave the def map, the glob edges and both
\* import lists as they are, and resolve_macros would resolve no macro call
\* and no attribute macro.
LoopEnded == pc = "post" /\ ~stuck
PassResolvesNothing(ir, macros, attribute_macros) ==
    /\ ResolveImports(ir) = ir
    /\ RetainMacros(ir.cs, macros, 1) = [retained |-> macros, resolved |-> <<>>]
    /\ SelectSeq(attribute_macros, Resolvable) = <<>>
LoopEndsAtFixedPoint ==
    LoopEnded => PassResolvesNothing(IR, unexpanded_macros, unexpanded_attribute_macros)
LoopEndsAtFixedPointWitness ==
    /\ LoopEnded
    /\ i >= 1
    /\ unresolved_imports # <<>>
    /\ unexpanded_macros # <<>>

\* Crates of a function, one inline module, glob imports of the module, of
\* the parent and of the importing module itself, and one exported macro
\* whose expansion can add the function late.
MaxItemsCycles == 4
CyclesImports ==
    { UseGlob(Path("Plain", <<"a">>)),
      UseGlob(Path("Super", <<>>)),
      UseGlob(Path("Self", <<>>)) }

NextCycles ==
    \/ StartCollect(NoHoist)
    \/ n_items < MaxItemsCycles /\ CollectDef("b", "fn")
    \/ \E import \in CyclesImports : n_items < MaxItemsCycles /\ CollectImport(import)
    \/ /\ n_items < MaxItemsCycles /\ Len(modules) < MaxModules
       /\ CollectModule("a", FALSE, NoHoist)
    \/ n_items < MaxItemsCycles /\ n_macro_defs = 0 /\ CollectMacroRules(MacroRules("b", TRUE))
    \/ n_items < MaxItemsCycles /\ CollectMacroCall(MacroCall(Path("Plain", <<"b">>)))
    \/ ExpandMacro(NoHoist)
    \/ Driver

SpecCycles == Init /\ [][NextCycles]_vars

\* The modules that reach target along one or more glob edges.
GlobTargets(m) == {t \in 1..Len(glob_imports) :
                      \E k \in 1..Len(glob_imports[t]) : glob_imports[t][k][1] = m}
RECURSIVE GlobReach(_, _)
GlobReach(set, n) ==
    IF n = 0 THEN set
    ELSE GlobReach(set \cup UNION {GlobTargets(m) : m \in set}, n - 1)
OnGlobCycle(m) == m \in GlobReach(GlobTargets(m), Len(glob_imports))

\* C24 as stated: no module reaches itself along the recorded glob edges.
GlobEdgesAcyclic == \A m \in 1..Len(glob_imports) : ~OnGlobCycle(m)

\* C24, amended: glob edges can form cycles, yet whatever resolve_imports
\* or a definition replays, update_recursive is never invoked deeper than
\* the crate has modules, since a replay that sets no slot goes no further;
\* so a crate of at most 100 modules never trips the depth guard.
ReplayDepthBounded ==
    /\ Len(modules) <= GlobDepthLimit => pc # "panicked"
    /\ pc \in {"loop", "post"} => ResolveImports(IR).cs.deepest <= Len(modules)
    /\ Collecting =>
           DefineDef(CS, Top.module_id, "b", "fn", n_defs + 1).deepest <= Len(modules)
ReplayDepthBoundedWitness ==
    /\ pc = "done"
    /\ OnGlobCycle(Root)
    /\ \E m \in 1..Len(glob_imports) :
           \E k \in 1..Len(glob_imports[m]) : glob_imports[m][k][1] = m
    /\ \E g \in gained : g[1] = Root

\* C25: update(target, batch) changes another module only when the batch set
\* a slot in target; every module in which the batch set a slot has had
\* the same batch replayed into each module with a glob edge onto it; a
\* module other than target changes only as the glob importer of a module
\* in which the batch set a slot; and every slot set holds what the batch
\* binds.
Batches ==
    { <<<<"b", Resolution(DefPerNs("fn", 9), NoImport)>>>>,
      <<<<"a", Resolution(DefPerNs("enum", 8), NoImport)>>>>,
      <<<<"a", Resolution(DefPerNs("struct", 8), NoImport)>>,
        <<"b", Resolution(DefPerNs("fn", 9), NoImport)>>>> }
SlotSet(before, after, m, n, ns) ==
    Slot(after.modules[m].items[n].def, ns) # Slot(before.modules[m].items[n].def, ns)
SlotsSet(before, after, m) ==
    \E n \in AllNames : \E ns \in Namespaces : SlotSet(before, after, m, n, ns)
Holds(items, batch) ==
    \A k \in 1..Len(batch) : \A ns \in Namespaces :
        Slot(batch[k][2].def, ns) # None => Slot(items[batch[k][1]].def, ns) # None
Importers(cs, m) == {cs.glob_imports[m][k][1] : k \in 1..Len(cs.glob_imports[m])}
UpdateReplays(before, after, target, batch) ==
    /\ ~after.panic
    /\ after.glob_imports = before.glob_imports
    /\ ~SlotsSet(before, after, target) =>
           \A m \in 1..Len(before.modules) :
               m # target => after.modules[m] = before.modules[m]
    /\ \A m \in 1..Len(before.modules) :
           /\ SlotsSet(before, after, m) =>
                  \A x \in Importers(before, m) : Holds(after.modules[x].items, batch)
           /\ (m # target /\ after.modules[m] # before.modules[m]) =>
                  \E x \in 1..Len(before.modules) :
                      SlotsSet(before, after, x) /\ m \in Importers(before, x)
           /\ \A n \in AllNames : \A ns \in Namespaces :
                  SlotSet(before, after, m, n, ns) =>
                      \E k \in 1..Len(batch) :
                          /\ batch[k][1] = n
                          /\ Slot(batch[k][2].def, ns) = Slot(after.modules[m].items[n].def, ns)
UpdateTouchesThroughGlobEdges ==
    \A target \in 1..Len(modules) : \A batch \in Batches :
        UpdateReplays(CS, Update(CS, target, NoImport, batch), target, batch)
\* A state in which one batch sets a slot in target and in two importers,
\* and another batch sets nothing in a target that has a glob importer.
ReplayedInto(before, after, target) ==
    /\ SlotsSet(before, after, target)
    /\ \E x \in 1..Len(before.modules) : \E y \in 1..Len(before.modules) :
           /\ x # target /\ y # target /\ x # y
           /\ SlotsSet(before, after, x) /\ SlotsSet(before, after, y)
NothingSet(before, after, target) ==
    /\ before.glob_imports[target] # <<>>
    /\ ~SlotsSet(before, after, target)
UpdateTouchesThroughGlobEdgesWitness ==
    /\ \E target \in 1..Len(modules) : \E batch \in Batches :
           ReplayedInto(CS, Update(CS, target, NoImport, batch), target)
    /\ \E target \in 1..Len(modules) : \E batch \in Batches :
           NothingSet(CS, Update(CS, target, NoImport, batch), target)

\* Crates of a function, one inline module, and glob imports of the module
\* and of the dependency, flagged #[prelude_import] or not.
MaxItemsPrelude == 4
PreludeImports ==
    { PreludeImport(Path("Plain", <<"a">>)),
      PreludeImport(Path("Plain", <<DepName>>)),
      UseGlob(Path("Plain", <<"a">>)) }

NextPrelude ==
    \/ StartCollect(NoHoist)
    \/ n_items < MaxItemsPrelude /\ CollectDef("b", "fn")
    \/ \E import \in PreludeImports : n_items < MaxItemsPrelude /\ CollectImport(import)
    \/ /\ n_items < MaxItemsPrelude /\ Len(modules) < MaxModules
       /\ CollectModule("a", FALSE, NoHoist)
    \/ Driver

SpecPrelude == Init /\ [][NextPrelude]_vars

\* The recorded glob imports flagged #[prelude_import] whose target is a
\* module.
PreludeGlob(directive) ==
    /\ directive.import.is_glob
    /\ directive.import.is_prelude
    /\ directive.status.tag # "Unresolved"
    /\ directive.status.ns.types.k \in {"module", "xmodule"}
PreludeGlobs == {k \in 1..Len(resolved_imports) : PreludeGlob(resolved_imports[k])}
HasEdge(directive) ==
    \E m \in 1..Len(glob_imports) : \E j \in 1..Len(glob_imports[m]) :
        glob_imports[m][j] = <<directive.module_id, directive.import_id>>
BoundThrough(directive) ==
    \E m \in 1..Len(modules) : \E n \in AllNames :
        modules[m].items[n].import = directive.import_id

\* C26 as stated: a recorded #[prelude_import] glob of a module of this
\* crate has its glob edge.
PreludeGlobAlsoImports ==
    \A k \in PreludeGlobs :
        resolved_imports[k].status.ns.types.k = "module" => HasEdge(resolved_imports[k])

\* C26, amended: a recorded #[prelude_import] glob whose target is a module
\* has set the crate's prelude, to its target unless a later such import
\* replaced it, and has done nothing else: no glob edge carries the import
\* and no scope entry is bound through it.
PreludeGlobOnlySetsPrelude ==
    /\ \A k \in PreludeGlobs :
           /\ ~HasEdge(resolved_imports[k])
           /\ ~BoundThrough(resolved_imports[k])
    /\ PreludeGlobs # {} =>
           \E k \in PreludeGlobs :
               /\ prelude = resolved_imports[k].status.ns.types
               /\ \A j \in PreludeGlobs : j <= k
PreludeGlobOnlySetsPreludeWitness ==
    /\ pc = "done"
    /\ prelude = LocalModule(2)
    /\ modules[2].items["b"].def.values # None
    /\ modules[Root].items["b"].def.values = None
    /\ \E k \in PreludeGlobs : resolved_imports[k].module_id = Root

\* ---------------------------------------------------- Expander: the calls

\* What enter_expand meets: the call's path does not parse, it resolves to
\* no macro, the expansion does not parse, it is no expression, or all
\* succeed.
Outcomes == {"no_path", "no_macro", "no_expansion", "no_expr", "ok"}

\* enter_expand switching to the expansion's file before it knows that the
\* expansion is an expression.
EnterExpandSwitchFirst(call, def, outcome) ==
    /\ ~panicking
    /\ IF outcome \in {"ok", "no_expr"}
       THEN /\ hygiene' = HygieneNew(AsFile(def, current_file_id, call))
            /\ current_file_id' = AsFile(def, current_file_id, call)
       ELSE UNCHANGED <<hygiene, current_file_id>>
    /\ IF outcome = "ok"
       THEN /\ marks' = Append(marks, Mark(current_file_id))
            /\ exp' = [exp EXCEPT !.ops = @ + 1, !.entered = @ + 1,
                                  !.saved = Append(@, [file_id |-> current_file_id,
                                                       hygiene |-> hygiene]),
                                  !.last = "enter_expand: Some"]
       ELSE /\ UNCHANGED marks
            /\ exp' = [exp EXCEPT !.ops = @ + 1, !.last = "enter_expand: None"]
    /\ UNCHANGED <<panicking, deps, canceled, collector>>

\* Expander::enter_expand on the call at place call of the current file.
EnterExpand(call, def, outcome) ==
    /\ ~panicking
    /\ IF outcome = "ok"
       THEN /\ marks' = Append(marks, Mark(current_file_id))
            /\ hygiene' = HygieneNew(AsFile(def, current_file_id, call))
            /\ current_file_id' = AsFile(def, current_file_id, call)
            /\ exp' = [exp EXCEPT !.ops = @ + 1, !.entered = @ + 1,
                                  !.saved = Append(@, [file_id |-> current_file_id,
                                                       hygiene |-> hygiene]),
                                  !.last = "enter_expand: Some"]
       ELSE /\ UNCHANGED <<marks, hygiene, current_file_id>>
            /\ exp' = [exp EXCEPT !.ops = @ + 1, !.last = "enter_expand: None"]
    /\ UNCHANGED <<panicking, deps, canceled, collector>>

\* Expander::exit with the k-th live mark.
ExitKeepHygiene(k) ==
    /\ ~panicking
    /\ k \in 1..Len(marks)
    /\ current_file_id' = marks[k].file_id
    /\ marks' = Remove(marks, k)
    /\ exp' = [exp EXCEPT !.ops = @ + 1, !.saved = Remove(@, k), !.exits = @ + 1,
                          !.nested = @ /\ k = Len(marks), !.last = "exit"]
    /\ UNCHANGED <<hygiene, panicking, deps, canceled, collector>>

Exit(k) ==
    /\ ~panicking
    /\ k \in 1..Len(marks)
    /\ hygiene' = HygieneNew(marks[k].file_id)
    /\ current_file_id' = marks[k].file_id
    /\ marks' = Remove(marks, k)
    /\ exp' = [exp EXCEPT !.ops = @ + 1, !.saved = Remove(@, k), !.exits = @ + 1,
                          !.nested = @ /\ k = Len(marks), !.last = "exit"]
    /\ UNCHANGED <<panicking, deps, canceled, collector>>

\* The k-th live mark goes out of scope: Drop for Mark.
DropMarkSilently(k) ==
    /\ k \in 1..Len(marks)
    /\ marks' = Remove(marks, k)
    /\ exp' = [exp EXCEPT !.ops = @ + 1, !.saved = Remove(@, k), !.nested = FALSE,
                          !.last = "drop"]
    /\ UNCHANGED <<panicking, current_file_id, hygiene, deps, canceled, collector>>

DropMark(k) ==
    /\ k \in 1..Len(marks)
    /\ marks' = Remove(marks, k)
    /\ panicking' = TRUE
    /\ exp' = [exp EXCEPT !.ops = @ + 1, !.saved = Remove(@, k), !.nested = FALSE,
                          !.dropped_mark_panics = IF panicking THEN @ ELSE @ + 1,
                          !.last = "drop"]
    /\ UNCHANGED <<current_file_id, hygiene, deps, canceled, collector>>

\* A panic of the Expander's caller starts unwinding its thread.
BeginUnwind ==
    /\ ~panicking
    /\ panicking' = TRUE
    /\ exp' = [exp EXCEPT !.ops = @ + 1, !.last = "panic"]
    /\ UNCHANGED <<current_file_id, hygiene, marks, deps, canceled, collector>>

\* An Expander on a source file, its caller entering the expansions of the
\* calls it meets, leaving them in any order, losing marks and panicking.
NextExpander ==
    \/ \E call \in 1..MaxCallsPerFile : \E def \in MacroDefs : \E outcome \in Outcomes :
           /\ exp.ops < MaxExpanderOps
           /\ outcome # "ok" => def = "self_macro"
           /\ EnterExpand(call, def, outcome)
    \/ \E k \in 1..Len(marks) : exp.ops < MaxExpanderOps /\ Exit(k)
    \/ \E k \in 1..Len(marks) : exp.ops < MaxExpanderOps /\ DropMark(k)
    \/ exp.ops < MaxExpanderOps /\ BeginUnwind

SpecExpander == Init /\ [][NextExpander]_vars



\* ------------------------------------------------------------ properties

\* The slot of namespace ns under name n in module m's scope.
ScopeSlot(ms, m, n, ns) == Slot(ms[m].items[n].def, ns)

\* C2: first-write-wins per namespace: in every step of the collection, a
\* slot (module, name, namespace) that holds an entity holds the same entity
\* after the step: it is never unset and never replaced.
FirstWriteWins ==
    [][\A m \in 1..Len(modules) : \A n \in AllNames : \A ns \in Namespaces :
          ScopeSlot(modules, m, n, ns) # None =>
              ScopeSlot(modules', m, n, ns) = ScopeSlot(modules, m, n, ns)]_vars

\* A definition met a value slot that another entity already held, and lost.
FirstWriteWinsWitness ==
    \E j \in 1..Len(input) :
        /\ input[j].op = "def"
        /\ input[j].ent.k = "def"
        /\ modules[input[j].module].items[input[j].name].def.values
               \notin {None, input[j].ent}

\* The modules that glob-import a module of S, directly or through a chain
\* of at most k glob imports, and S.
RECURSIVE GlobImporters(_, _)
GlobImporters(S, k) ==
    IF k = 0 THEN S
    ELSE GlobImporters(
             S \cup UNION {{glob_imports[m][j][1] : j \in 1..Len(glob_imports[m])} : m \in S},
             k - 1)

IsCrossCrateGlob(d) ==
    d.import.is_glob /\ StatusNamespaces(d.status).types.k = "xmodule"

\* The importing module holds every name and namespace of the foreign
\* module's scope, the names it has from the glob are names of that scope,
\* and no glob edge was recorded for the import.
SnapshotOf(d) ==
    LET target == StatusNamespaces(d.status).types.id
    IN  /\ \A n \in AllNames : \A ns \in Namespaces :
               Slot(DepItems(target)[n].def, ns) # None =>
                   ScopeSlot(modules, d.module_id, n, ns) # None
        /\ \A n \in AllNames :
               modules[d.module_id].items[n].import = d.import_id =>
                   DepItems(target)[n].present
        /\ \A m \in 1..Len(modules) : \A j \in 1..Len(glob_imports[m]) :
               glob_imports[m][j][2] # d.import_id

AttemptedEntry(ms, d) == ms[d.module_id].items[ImportName(d.import)]
IsNamedPlain(d) == ~d.import.is_glob /\ Len(d.import.path.segments) > 0
\* No earlier directive of the list attempts the same name in the same module.
FirstAttempt(list, k) ==
    \A j \in 1..(k - 1) :
        IsNamedPlain(list[j]) =>
            \/ list[j].module_id # list[k].module_id
            \/ ImportName(list[j].import) # ImportName(list[k].import)

\* C10 (as amended): the step that records the imports still unresolved
\* after the final resolution run leaves, for every plain import among them,
\* an entry under its attempted name in its module's scope; the entry's
\* definitions are what the scope held before, and where the scope held
\* neither a definition nor an import id under the name, the entry has no
\* definition and the id of the first such import.  Unresolved glob imports
\* leave no entry.
UnresolvedPlainRecorded ==
    [][pc = "record" =>
          /\ \A k \in 1..Len(unresolved_imports) :
                 IsNamedPlain(unresolved_imports[k]) =>
                     /\ AttemptedEntry(modules', unresolved_imports[k]).present
                     /\ AttemptedEntry(modules', unresolved_imports[k]).def
                            = AttemptedEntry(modules, unresolved_imports[k]).def
                     /\ ( /\ PerNsIsNone(AttemptedEntry(modules, unresolved_imports[k]).def)
                          /\ AttemptedEntry(modules, unresolved_imports[k]).import = NoImport
                          /\ FirstAttempt(unresolved_imports, k) )
                            => AttemptedEntry(modules', unresolved_imports[k]).import
                                   = unresolved_imports[k].import_id
          /\ (\A k \in 1..Len(unresolved_imports) : ~IsNamedPlain(unresolved_imports[k]))
                 => modules' = modules]_vars

\* Collection finished with an entry that has no definition and the id of
\* an import that is in no list: one recorded while still unresolved.
UnresolvedPlainRecordedWitness ==
    /\ pc = "done"
    /\ \E m \in 1..Len(modules) : \E n \in AllNames :
           /\ modules[m].items[n].present
           /\ PerNsIsNone(modules[m].items[n].def)
           /\ modules[m].items[n].import # NoImport
           /\ \A k \in 1..Len(resolved_imports) :
                  resolved_imports[k].import_id # modules[m].items[n].import

\* C10 as stated: the step records every import still unresolved, plain or
\* glob, under its attempted name as an entry with no definition and the
\* import's id.
UnresolvedAlwaysRecorded ==
    [][pc = "record" =>
          \A k \in 1..Len(unresolved_imports) :
              Len(unresolved_imports[k].import.path.segments) > 0 =>
                  /\ AttemptedEntry(modules', unresolved_imports[k]).present
                  /\ PerNsIsNone(AttemptedEntry(modules', unresolved_imports[k]).def)
                  /\ AttemptedEntry(modules', unresolved_imports[k]).import
                         = unresolved_imports[k].import_id]_vars


\* The item a step handles, when it handles one.
HandlesItem == Len(input') = Len(input) + 1
Handled == input'[Len(input')]
HandlesRules == HandlesItem /\ Handled.op = "rules" /\ Handled.name # NoName

\* C3: legacy shadow-always: the step that handles a named macro_rules! item
\* leaves the module's legacy scope binding the name to the macro just
\* defined, whatever the scope bound under the name before.
LegacyShadowAlways ==
    [][HandlesRules => modules'[Handled.module].legacy_macros[Handled.name] = Handled.ent]_vars

\* A macro_rules! item redefined a name its module's legacy scope already
\* bound, to another macro, and the scope binds the name to the new macro.
LegacyShadowAlwaysWitness ==
    \E j \in 1..Len(input) :
        /\ input[j].op = "rules"
        /\ input[j].old \notin {None, input[j].ent}
        /\ modules[input[j].module].legacy_macros[input[j].name] = input[j].ent

\* C6 (as amended): export visibility: the step that handles a
\* #[macro_export] macro_rules! item named n, in whatever module, leaves the
\* root's path scope binding n in the macro namespace: to that macro when the
\* root's macro slot under n was empty, else to the entity that held it.
ExportedVisibleAtRoot ==
    [][(HandlesRules /\ Handled.export) =>
          modules'[Root].items[Handled.name].def.macros =
              IF modules[Root].items[Handled.name].def.macros # None
              THEN modules[Root].items[Handled.name].def.macros
              ELSE Handled.ent]_vars

\* An exported macro defined in a nested module is the root scope's macro
\* under its name.
ExportedVisibleAtRootWitness ==
    \E j \in 1..Len(input) :
        /\ input[j].op = "rules"
        /\ input[j].export
        /\ input[j].module # Root
        /\ modules[Root].items[input[j].name].def.macros = input[j].ent

\* C6 as stated: after the step that handles a #[macro_export] macro_rules!
\* item named n, the root's path scope binds n in the macro namespace to that
\* macro.
ExportedAlwaysBoundAtRoot ==
    [][(HandlesRules /\ Handled.export) =>
          modules'[Root].items[Handled.name].def.macros = Handled.ent]_vars

\* The crate `mod a { macro_rules! b { .. } } use a::b as b;`, its two root
\* items in either order, wholly collected.
LegacyUseCrate ==
    /\ Len(input) = 3
    /\ {input[j] : j \in 1..Len(input)} =
           { ModuleItem(Root, "a", FALSE, 2),
             RulesItem(2, "b", FALSE, Entity("macro", 1), None),
             ImportItem(Root, 1, UseAs(Path("Plain", <<"a", "b">>), "b")) }

\* C7: the step that handles a macro_rules! item without #[macro_export]
\* changes no module's path scope and no legacy scope but the defining
\* module's; and for the crate above, the importing module's entry under the
\* alias ends collection with no definition in any namespace.
NonExportedLegacyOnly ==
    /\ [][(HandlesRules /\ ~Handled.export) =>
             \A m \in 1..Len(modules) :
                 /\ modules'[m].items = modules[m].items
                 /\ m # Handled.module =>
                        modules'[m].legacy_macros = modules[m].legacy_macros]_vars
    /\ [](pc = "done" /\ LegacyUseCrate => PerNsIsNone(modules[Root].items["b"].def))

\* Collection of that crate finished: the macro is in the legacy scope of
\* its module and the importing module has an entry under the alias.
NonExportedLegacyOnlyWitness ==
    /\ pc = "done"
    /\ LegacyUseCrate
    /\ modules[2].legacy_macros["b"] = Entity("macro", 1)
    /\ modules[Root].items["b"].present


\* C1: collect terminates within the cap without crashing: at every moment
\* collect is either still running, having counted at most StuckLimit passes
\* that resolved a macro, or has returned; it has not crashed.
CollectReturnsWithinCap ==
    /\ i <= StuckLimit
    /\ pc \in {"start", "collect_root", "collect_expansion", "loop", "macros", "expand",
               "post", "final_imports", "record", "done"}

\* C8: tripping the depth guard of update_recursive never panics.
GlobGuardNeverPanics == pc # "panicked"

\* The <<import id, status>> of the import directives of both lists.
ImportStatuses ==
    {<<unresolved_imports[k].import_id, unresolved_imports[k].status>> :
        k \in 1..Len(unresolved_imports)}
    \cup {<<resolved_imports[k].import_id, resolved_imports[k].status>> :
        k \in 1..Len(resolved_imports)}

\* C9 (as amended): once the loop has stopped at the cap, no step until
\* collect returns resolves or expands a macro directive or creates one: the
\* pending macro directives stay as they were when the cap tripped, and
\* collect only runs its post-loop steps (which still retry imports).
CapStopsMacroResolution ==
    [][stuck =>
          /\ unexpanded_macros' = unexpanded_macros
          /\ resolved' = resolved
          /\ n_calls' = n_calls
          /\ pc' \in {"post", "final_imports", "record", "done"}]_vars

\* Collect returned after the cap tripped, a macro directive still pending.
CapStopsMacroResolutionWitness ==
    /\ stuck
    /\ i = StuckLimit
    /\ pc = "done"
    /\ unexpanded_macros # <<>>

\* C9 as stated: once the loop has stopped at the cap, no macro directive
\* is expanded and no import or macro directive changes status: a step gives
\* no directive that existed before it a status it did not have.
CapStopsAllResolution ==
    [][stuck =>
          /\ unexpanded_macros' = unexpanded_macros
          /\ resolved' = resolved
          /\ \A p \in ImportStatuses' :
                 (\E q \in ImportStatuses : q[1] = p[1]) => p \in ImportStatuses]_vars

\* The entries of a list of directives that belong to import id.
CountId(list, id) == Cardinality({k \in 1..Len(list) : list[k].import_id = id})
\* The directives collect appends to unresolved_imports in a step.
Requeued == SubSeq(unresolved_imports', Len(unresolved_imports) + 1, Len(unresolved_imports'))

\* C11: after the outer loop, the step that re-opens queues one copy, with
\* status Unresolved, of every recorded directive whose status is
\* Indeterminate and of no other; then resolve_imports runs once more, and
\* once only, before the unresolved imports are recorded: that run takes
\* every re-opened directive and leaves its one new result, recorded once
\* more or still unresolved; it takes no directive whose status is Resolved.
ReopenedRetriedOnce ==
    [][/\ pc = "post" =>
              /\ pc' = "final_imports"
              /\ resolved_imports' = resolved_imports
              /\ SubSeq(unresolved_imports', 1, Len(unresolved_imports)) = unresolved_imports
              /\ \A k \in 1..Len(Requeued) : Requeued[k].status = Unresolved
              /\ \A j \in 1..Len(resolved_imports) :
                     CountId(Requeued, resolved_imports[j].import_id) =
                         IF resolved_imports[j].status.tag = "Indeterminate" THEN 1 ELSE 0
              /\ \A k \in 1..Len(Requeued) : \E j \in 1..Len(resolved_imports) :
                     /\ resolved_imports[j].status.tag = "Indeterminate"
                     /\ Requeued[k] = [resolved_imports[j] EXCEPT !.status = Unresolved]
       /\ pc = "final_imports" =>
              /\ pc' = "record"
              /\ \A j \in 1..Len(resolved_imports) :
                     LET id == resolved_imports[j].import_id
                     IN  IF resolved_imports[j].status.tag = "Indeterminate"
                         THEN /\ CountId(unresolved_imports, id) = 1
                              /\ CountId(resolved_imports', id)
                                     + CountId(unresolved_imports', id) = 2
                         ELSE /\ CountId(unresolved_imports, id) = 0
                              /\ CountId(unresolved_imports', id) = 0
                              /\ CountId(resolved_imports', id) = 1]_vars

\* Collection finished with an import recorded twice, at its first resolution
\* and at its retry, and a Resolved import recorded once.
ReopenedRetriedOnceWitness ==
    /\ pc = "done"
    /\ \E j \in 1..Len(resolved_imports) :
           /\ resolved_imports[j].status.tag = "Indeterminate"
           /\ CountId(resolved_imports, resolved_imports[j].import_id) = 2
    /\ \E j \in 1..Len(resolved_imports) :
           /\ resolved_imports[j].status.tag = "Resolved"
           /\ CountId(resolved_imports, resolved_imports[j].import_id) = 1

\* No other item of the crate writes the scope entry the directive binds: no
\* definition or module of that name in the owning module, no exported macro
\* of that name, no other import of the owning module that is a glob or
\* binds that name.
SoleBinder(d) ==
    \A k \in 1..Len(input) :
        /\ input[k].op \in {"def", "module"} =>
               input[k].module # d.module_id \/ input[k].name # ImportName(d.import)
        /\ input[k].op = "rules" =>
               ~input[k].export \/ input[k].name # ImportName(d.import)
        /\ (input[k].op = "import" /\ input[k].module = d.module_id
                /\ input[k].ent.id # d.import_id) =>
               /\ ~input[k].import.is_glob
               /\ ~input[k].import.is_extern_crate
               /\ ImportName(input[k].import) # ImportName(d.import)

\* The directive was recorded with status Indeterminate and it alone bound
\* the entry under its name in the owning scope.
BoundByIndeterminate(d) ==
    /\ d.status.tag = "Indeterminate"
    /\ IsNamedPlain(d)
    /\ SoleBinder(d)
    /\ AttemptedEntry(modules, d).present
    /\ AttemptedEntry(modules, d).import = d.import_id

\* C12: when collection has finished, the scope entry bound by every import
\* that was Indeterminate holds, in each namespace, what resolving the
\* import's path in the final def map yields.
RetriedEntryIsFinalResolution ==
    pc = "done" =>
        \A j \in 1..Len(resolved_imports) :
            BoundByIndeterminate(resolved_imports[j]) =>
                AttemptedEntry(modules, resolved_imports[j]).def =
                    StatusNamespaces(ResolveImport(CS, resolved_imports[j].module_id,
                                                   resolved_imports[j].import))

\* C13: every import directive classified Indeterminate by resolve_import
\* has at least one namespace settled, and not all three.
IndeterminateSettlesSome ==
    \A j \in 1..Len(resolved_imports) :
        resolved_imports[j].status.tag = "Indeterminate" =>
            /\ ~PerNsIsNone(resolved_imports[j].status.ns)
            /\ \E ns \in Namespaces : Slot(resolved_imports[j].status.ns, ns) = None

\* The step handles a declaration `mod name;` whose file is missing.
HandlesUnresolvedModule ==
    /\ Len(input') = Len(input) + 1
    /\ input'[Len(input')].op = "unresolved_module"
\* The unresolved declarations among the items handled so far.
UnresolvedDeclarations == {k \in 1..Len(input) : input[k].op = "unresolved_module"}

\* C14: handling a declaration `mod name;` whose file is missing appends
\* exactly one diagnostic, naming the declaring module and the declaration;
\* it allocates no module, writes no scope entry, queues no directive and
\* starts no item list, and the declaring module's list goes on with its next
\* item; no other step records a diagnostic.
UnresolvedModuleSkipped ==
    [][/\ HandlesUnresolvedModule =>
              /\ diagnostics' = Append(diagnostics,
                                       [module |-> input'[Len(input')].module,
                                        name |-> input'[Len(input')].name])
              /\ input'[Len(input')].module = Top.module_id
              /\ modules' = modules
              /\ glob_imports' = glob_imports
              /\ unresolved_imports' = unresolved_imports
              /\ unexpanded_macros' = unexpanded_macros
              /\ mod_dirs' = mod_dirs
              /\ pc' = pc
              /\ stack' = Advance(stack)
       /\ ~HandlesUnresolvedModule => diagnostics' = diagnostics]_vars

\* Collection finished for a crate whose module declared a missing file and
\* then a function, and the function is in that module's scope.
UnresolvedModuleSkippedWitness ==
    /\ pc = "done"
    /\ \E k \in UnresolvedDeclarations : \E j \in (k + 1)..Len(input) :
           /\ input[j].op = "def"
           /\ input[j].module = input[k].module
           /\ input[j].name # input[k].name
           /\ modules[input[j].module].items[input[j].name].def.values = input[j].ent
           /\ ~modules[input[k].module].items[input[k].name].present
           /\ Len(diagnostics) = Cardinality(UnresolvedDeclarations)

\* The step is a call on the Expander, or the loss of a mark, of this kind.
ExpanderStep(kind) == exp'.ops = exp.ops + 1 /\ exp'.last = kind

\* C15: a mark that goes out of scope without exit panics with "dropped
\* mark", unless the thread is already panicking, and then it goes silently;
\* a mark passed to exit leaves without a panic.  So while no panic unwinds,
\* every mark enter_expand returned is alive or has been passed to exit.
DroppedMarkPanics ==
    [][/\ ExpanderStep("drop") =>
              /\ Len(marks') = Len(marks) - 1
              /\ panicking'
              /\ exp'.dropped_mark_panics =
                     exp.dropped_mark_panics + (IF panicking THEN 0 ELSE 1)
       /\ ExpanderStep("exit") =>
              /\ Len(marks') = Len(marks) - 1
              /\ ~panicking'
              /\ exp'.dropped_mark_panics = exp.dropped_mark_panics
       /\ ~panicking => exp.entered = Len(marks) + exp.exits]_vars

\* One mark was passed to exit, and then another was dropped and panicked.
DroppedMarkPanicsWitness ==
    /\ exp.last = "drop"
    /\ exp.exits >= 1
    /\ exp.dropped_mark_panics = 1
    /\ panicking

\* C16: while enter_expand and exit are well nested, exit with the newest
\* mark restores the file id and the hygiene in effect just before the
\* enter_expand that returned it; the marks alive are the files entered and
\* not left, innermost last, and with no mark alive the Expander is back at
\* the file and hygiene it was built with.
ExitRestoresContext ==
    [][/\ (ExpanderStep("exit") /\ exp'.nested) =>
              /\ current_file_id' = exp.saved[Len(marks)].file_id
              /\ hygiene' = exp.saved[Len(marks)].hygiene
              /\ marks' = SubSeq(marks, 1, Len(marks) - 1)
       /\ (exp.nested /\ ~panicking) =>
              /\ Len(marks) = Len(current_file_id)
              /\ \A k \in 1..Len(marks) :
                     marks[k].file_id = SubSeq(current_file_id, 1, k - 1)
              /\ marks = <<>> =>
                     current_file_id = SourceFile /\ hygiene = HygieneNew(SourceFile)]_vars

\* Two expansions were entered, one inside the other, and both were left:
\* the Expander is back at its source file.
ExitRestoresContextWitness ==
    /\ exp.nested
    /\ exp.last = "exit"
    /\ exp.exits >= 2
    /\ marks = <<>>
    /\ current_file_id = SourceFile

\* C17: an enter_expand that returns None adds no mark and leaves the file
\* id and the hygiene as they were; one that returns Some adds one mark,
\* holding the file id it leaves, and switches both to the expansion's.
FailedEnterChangesNothing ==
    [][/\ ExpanderStep("enter_expand: None") =>
              /\ marks' = marks
              /\ current_file_id' = current_file_id
              /\ hygiene' = hygiene
       /\ ExpanderStep("enter_expand: Some") =>
              /\ marks' = Append(marks, Mark(current_file_id))
              /\ current_file_id' # current_file_id
              /\ hygiene' = HygieneNew(current_file_id')]_vars

\* Inside an expansion of a macro of the dependency, an enter_expand failed.
FailedEnterChangesNothingWitness ==
    /\ exp.last = "enter_expand: None"
    /\ Len(marks) >= 1
    /\ current_file_id # SourceFile
    /\ hygiene = [def_crate |-> "dep"]

\* C18: an outer iteration starts by asking the database whether the query
\* is canceled: resolve_imports of an iteration runs only if it is not, and
\* if it is collect is left at once, the def map as it was; from then on no
\* step of collect runs and collect never returns.
CanceledAborts ==
    [][/\ (pc = "loop" /\ pc' # pc) =>
              IF canceled
              THEN /\ pc' = "canceled"
                   /\ UNCHANGED <<defmap, diagnostics, directives, mod_dirs, i, stack,
                                  resolved, res, stuck, counters, input>>
              ELSE pc' \in {"macros", "panicked"}
       /\ pc = "canceled" => UNCHANGED collector]_vars

\* Collect was left when its second or a later iteration asked the
\* database, a macro call still unexpanded.
CanceledAbortsWitness ==
    /\ pc = "canceled"
    /\ i >= 1
    /\ unexpanded_macros # <<>>

\* The prelude of the last of the first k dependencies that exposes one.
RECURSIVE LastPrelude(_, _)
LastPrelude(list, k) ==
    IF k = 0 THEN None
    ELSE IF list[k].prelude # None THEN list[k].prelude
    ELSE LastPrelude(list, k - 1)

\* C19: when collect_defs has seeded the def map, the extern prelude binds
\* the name of every dependency to that dependency's root module, and the
\* prelude is the prelude of the last dependency that exposes one, none if
\* no dependency exposes one.
SeedingBindsDependencies ==
    pc = "start" =>
        /\ \A k \in 1..Len(deps) : extern_prelude[deps[k].name] = deps[k].root
        /\ prelude = LastPrelude(deps, Len(deps))

\* Three dependencies were seeded: two expose preludes of their own, the
\* last exposes none, and the prelude is the second's.
SeedingBindsDependenciesWitness ==
    /\ pc = "start"
    /\ Len(deps) = 3
    /\ deps[1].prelude # None
    /\ deps[2].prelude # None
    /\ deps[2].prelude # deps[1].prelude
    /\ deps[3].prelude = None
    /\ prelude = deps[2].prelude

\* The step handles an item of a list whose `#[macro_use] extern crate` item
\* the second pass has not reached yet.
HandlesBeforeHoisted ==
    /\ Collecting
    /\ Top.hoist.pending
    /\ Len(input') = Len(input) + 1
\* The macros the dependency's root scope exposes.
DepMacroNames == {n \in AllNames : ScopeGet(DepItems(DepRoot), n).macros # None}

\* C20: when an item of a list is handled ahead of the list's
\* `#[macro_use] extern crate` item, the module's legacy scope already binds
\* every macro the dependency exposes, to the dependency's macro when the item
\* is the first of the list; and a call of such a macro by its bare name is
\* queued as a legacy call, bound to what the legacy scope holds.
HoistedMacroUse ==
    [][HandlesBeforeHoisted =>
          /\ DepMacroNames # {}
          /\ \A n \in DepMacroNames :
                 /\ modules[Top.module_id].legacy_macros[n] # None
                 /\ Top.len = 0 =>
                        modules[Top.module_id].legacy_macros[n] =
                            ScopeGet(DepItems(DepRoot), n).macros
                 /\ (input'[Len(input')].op = "call"
                        /\ input'[Len(input')].import.path = Path("Plain", <<n>>)) =>
                        /\ Len(unexpanded_macros') = Len(unexpanded_macros) + 1
                        /\ unexpanded_macros'[Len(unexpanded_macros')].legacy =
                               modules[Top.module_id].legacy_macros[n]]_vars

\* The root's list called b!, a macro of the dependency, as its first item,
\* ahead of `#[macro_use] extern crate dep;`, and the call was queued bound to
\* the dependency's macro.
HoistedMacroUseWitness ==
    /\ Len(input) >= 2
    /\ input[1].op = "call"
    /\ input[1].import.path = Path("Plain", <<"b">>)
    /\ \E k \in 2..Len(input) :
           input[k].op = "import" /\ input[k].import.is_extern_crate
               /\ input[k].import.is_macro_use
    /\ \E k \in 1..Len(unexpanded_macros) :
           /\ unexpanded_macros[k].ast_id = input[1].ent.id
           /\ unexpanded_macros[k].legacy = ScopeGet(DepItems(DepRoot), "b").macros

\* The step ends the collection of an expansion that has no items, as the
\* expansion of a call that failed to expand has none.
EndsEmptyExpansion ==
    /\ pc = "collect_expansion"
    /\ pc' # pc
    /\ Len(input) = exps.start
\* The ast ids of the macro directives of a list.
AstIds(list) == {list[k].ast_id : k \in 1..Len(list)}

\* C21: a resolved call whose expansion has no items does not stop collect:
\* the call has left the pending set when its expansion starts, the
\* expansion adds no module, no scope entry, no import and no macro
\* directive, and when it ends resolve_macros goes on with the resolved
\* calls left; a call that has left the pending set never enters it again.
FailedExpansionSkipped ==
    [][/\ (pc = "expand" /\ pc' = "collect_expansion") =>
              /\ Head(resolved).ast_id \notin AstIds(unexpanded_macros')
              /\ resolved' = Tail(resolved)
              /\ UNCHANGED <<diagnostics, directives, glob_imports>>
              /\ Len(modules') = Len(modules)
              /\ \A m \in 1..Len(modules) : modules'[m].items = modules[m].items
       /\ EndsEmptyExpansion =>
              /\ pc' = "expand"
              /\ resolved' = resolved
              /\ UNCHANGED <<defmap, diagnostics, directives>>
       /\ AstIds(unexpanded_macros') \ AstIds(unexpanded_macros) \subseteq {n_calls + 1}
       /\ AstIds(resolved') \subseteq
              AstIds(resolved) \cup AstIds(unexpanded_macros)
                  \cup AstIds(unexpanded_attribute_macros)]_vars

\* Collection finished after an expansion without items and a later
\* expansion that brought items.
FailedExpansionSkippedWitness ==
    /\ pc = "done"
    /\ exps.empty >= 1
    /\ exps.after_empty

\* Crates of `extern crate` items naming the dependency or a name the
\* extern prelude lacks, one inline module of that name, plain imports of
\* the module and of a name it lacks, and one exported macro whose expansion
\* can add such items late.
MaxItemsExtern == 4
ExternImports ==
    { ExternCrate(DepName), ExternCrate("a"), Use(Path("Plain", <<"a", "b">>)),
      Use(Path("Plain", <<"a">>)) }

NextExtern ==
    \/ StartCollect(NoHoist)
    \/ \E import \in ExternImports : n_items < MaxItemsExtern /\ CollectImport(import)
    \/ /\ n_items < MaxItemsExtern /\ Len(modules) < MaxModules
       /\ CollectModule("a", FALSE, NoHoist)
    \/ n_items < MaxItemsExtern /\ n_macro_defs = 0 /\ CollectMacroRules(MacroRules("b", TRUE))
    \/ n_items < MaxItemsExtern /\ CollectMacroCall(MacroCall(Path("Plain", <<"b">>)))
    \/ ExpandMacro(NoHoist)
    \/ Driver

SpecExtern == Init /\ [][NextExtern]_vars

\* C27: a run of resolve_imports moves every pending extern-crate import
\* to the resolved list with status Resolved and the extern prelude's entry
\* for its name as the types, nothing else, be the entry empty or not; a
\* recorded extern-crate import is Resolved and recorded once, and one that
\* is pending has never been recorded, so none is attempted twice.
ExternCrateDirectives(list) == {k \in 1..Len(list) : list[k].import.is_extern_crate}
ResolvedFromExternPrelude(directive) ==
    [directive EXCEPT
        !.status = Resolved(PerNsTypes(extern_prelude[directive.import.path.segments[1]]))]
ExternCrateResolvedAtOnce ==
    [][/\ (pc \in {"loop", "final_imports"} /\ pc' \notin {pc, "canceled", "panicked"}) =>
              \A k \in ExternCrateDirectives(unresolved_imports) :
                  /\ CountId(unresolved_imports', unresolved_imports[k].import_id) = 0
                  /\ \E j \in (Len(resolved_imports) + 1)..Len(resolved_imports') :
                         resolved_imports'[j] =
                             ResolvedFromExternPrelude(unresolved_imports[k])
       /\ \A k \in ExternCrateDirectives(resolved_imports') :
              /\ resolved_imports'[k].status.tag = "Resolved"
              /\ CountId(resolved_imports', resolved_imports'[k].import_id) = 1
       /\ \A k \in ExternCrateDirectives(unresolved_imports') :
              CountId(resolved_imports', unresolved_imports'[k].import_id) = 0]_vars
\* Collection finished with two extern-crate imports recorded: one bound
\* to the dependency, one to nothing although the crate has a module of its
\* name.
ExternCrateResolvedAtOnceWitness ==
    /\ pc = "done"
    /\ \E k \in ExternCrateDirectives(resolved_imports) :
           resolved_imports[k].status.ns.types # None
    /\ \E k \in ExternCrateDirectives(resolved_imports) :
           /\ resolved_imports[k].status.ns = PerNsNone
           /\ modules[resolved_imports[k].module_id].items["a"].def.types # None

\* How often the two lists hold the directive of an import.
Held(id) == CountId(unresolved_imports, id) + CountId(resolved_imports, id)
RecordedIndeterminate(id) ==
    \E j \in 1..Len(resolved_imports) :
        /\ resolved_imports[j].import_id = id
        /\ resolved_imports[j].status.tag = "Indeterminate"
StatusFitsList ==
    /\ \A k \in 1..Len(unresolved_imports) : unresolved_imports[k].status = Unresolved
    /\ \A k \in 1..Len(resolved_imports) :
           resolved_imports[k].status.tag \in {"Indeterminate", "Resolved"}

\* C28 as stated: at every point each directive created so far is held
\* exactly once, in the list that fits its status.
ImportHeldOnce ==
    /\ StatusFitsList
    /\ \A id \in 1..n_imports : Held(id) = 1

\* C28, amended: a pending directive is Unresolved and a recorded one is
\* Indeterminate or Resolved; until the outer loop has ended each directive
\* is held once; from the re-opening on, a directive recorded as
\* Indeterminate is held twice, its copy pending or recorded again, and
\* every other one once; the last step empties the pending list, so that
\* at the end a directive that never resolved is held by neither list.
ImportHeldOnceUntilReopened ==
    /\ StatusFitsList
    /\ pc \notin {"final_imports", "record", "done"} =>
           \A id \in 1..n_imports : Held(id) = 1
    /\ pc \in {"final_imports", "record"} =>
           \A id \in 1..n_imports :
               Held(id) = IF RecordedIndeterminate(id) THEN 2 ELSE 1
    /\ pc = "done" =>
           /\ unresolved_imports = <<>>
           /\ \A id \in 1..n_imports :
                  Held(id) <= (IF RecordedIndeterminate(id) THEN 2 ELSE 1)
ImportHeldOnceUntilReopenedWitness ==
    /\ pc = "done"
    /\ \E id \in 1..n_imports : Held(id) = 2
    /\ \E id \in 1..n_imports : Held(id) = 0
    /\ \E id \in 1..n_imports : Held(id) = 1

\* C29: a module created with no foreign prelude in force starts with the
\* legacy scope its parent has at that moment; afterwards an item collected
\* in a module changes the legacy scope of that module alone, and the copy
\* back at the end of a #[macro_use] module that of its parent alone: a
\* macro defined later in the parent leaves the child's scope as it was.
LegacyUnchangedBut(m) ==
    \A x \in 1..Len(modules) :
        x # m => modules'[x].legacy_macros = modules[x].legacy_macros
ChildLegacyIsSnapshot ==
    [][/\ (Collecting /\ Len(modules') = Len(modules) + 1 /\ prelude = None) =>
              /\ modules'[Len(modules')].legacy_macros = modules[Top.module_id].legacy_macros
              /\ modules'[Len(modules')].parent = Top.module_id
              /\ LegacyUnchangedBut(Len(modules'))
       /\ (Collecting /\ Len(stack') = Len(stack) /\ pc' = pc) =>
              LegacyUnchangedBut(Top.module_id)
       /\ (Collecting /\ Len(stack) > 1 /\ Len(stack') = Len(stack) - 1) =>
              LegacyUnchangedBut(stack[Len(stack) - 1].module_id)]_vars
\* Collection finished with a macro in the root's legacy scope that a child
\* lacks, and a macro that another child holds as the root does.
ChildLegacyIsSnapshotWitness ==
    /\ pc = "done"
    /\ \E m \in 1..Len(modules) : \E n \in AllNames :
           /\ modules[m].parent = Root
           /\ modules[Root].legacy_macros[n] # None
           /\ modules[m].legacy_macros[n] = None
    /\ \E m \in 1..Len(modules) : \E n \in AllNames :
           /\ modules[m].parent = Root
           /\ modules[m].legacy_macros[n] # None
           /\ modules[m].legacy_macros[n] = modules[Root].legacy_macros[n]

\* The modules declared with #[macro_use].
MacroUseModules ==
    {input[k].ent.id : k \in {j \in 1..Len(input) :
                                  input[j].op = "module" /\ input[j].macro_use}}
\* What a legacy scope holds under a name once macro was written there: the
\* macro, or one written later, a macro defined after it or a foreign one.
WrittenThen(binding, macro) ==
    \/ binding.k = "xmacro"
    \/ binding.k = "macro" /\ binding.id >= macro.id

\* C30: when collection has finished, every macro_rules! macro bound in the
\* legacy scope of a #[macro_use] module was written into the legacy scope
\* of its parent: the parent binds the name to that macro or to one written
\* later.
MacroUseCopiesFinalScope ==
    pc = "done" =>
        \A m \in MacroUseModules : \A n \in AllNames :
            modules[m].legacy_macros[n].k = "macro" =>
                WrittenThen(modules[modules[m].parent].legacy_macros[n],
                            modules[m].legacy_macros[n])


\* Crates of macro items, in the root and in a module a: items flagged
\* builtin, written macro_rules! or b! and named a or b; macro_rules!
\* definitions unnamed or named a or b, exported or not; calls b!() and
\* a::b!().
MaxItemsClassify == 3
ClassifyMacros ==
    { [MacroData(path, name, FALSE) EXCEPT !.builtin = TRUE] :
          path \in {MacroRulesPath, Path("Plain", <<"b">>)}, name \in {"a", "b"} }
        \cup { MacroData(MacroRulesPath, name, export) :
                   name \in {NoName, "a", "b"}, export \in BOOLEAN }
        \cup { MacroData(path, NoName, FALSE) :
                   path \in {Path("Plain", <<"b">>), Path("Plain", <<"a", "b">>)} }
NextClassify ==
    \/ StartCollect(NoHoist)
    \/ /\ n_items < MaxItemsClassify /\ Len(modules) < 2
       /\ CollectModule("a", FALSE, NoHoist)
    \/ \E mac \in ClassifyMacros : n_items < MaxItemsClassify /\ CollectBuiltinMacro(mac)
    \/ \E mac \in ClassifyMacros : n_items < MaxItemsClassify /\ CollectMacroRules(mac)
    \/ \E mac \in ClassifyMacros : n_items < MaxItemsClassify /\ CollectMacroCall(mac)
    \/ ExpandMacro(NoHoist)
    \/ Driver
SpecClassify == Init /\ [][NextClassify]_vars

\* The macro item a step handles, as written.
HandlesMacro == HandlesItem /\ Handled.op \in {"builtin", "rules", "call"}
WrittenBuiltin == Handled.builtin /\ Handled.name \in {"b"}
WrittenRules == Handled.import.path = Path("Plain", <<"macro_rules">>)
WrittenIdent == Handled.import.path.kind = "Plain" /\ Len(Handled.import.path.segments) = 1
\* The macro the root's path scope holds under the handled name once a
\* definition was written there first-write-wins.
RootMacroAfter ==
    IF modules[Root].items[Handled.name].def.macros # None
    THEN modules[Root].items[Handled.name].def.macros
    ELSE Handled.ent
\* What defining the handled macro does: the module's legacy scope binds the
\* name to it, the root's path scope too when exported, and nothing is queued.
DefinedAs(kind) ==
    /\ Handled.ent.k = kind
    /\ modules'[Handled.module].legacy_macros[Handled.name] = Handled.ent
    /\ Handled.export => modules'[Root].items[Handled.name].def.macros = RootMacroAfter
    /\ ~Handled.export => \A m \in 1..Len(modules) : modules'[m].items = modules[m].items
    /\ unexpanded_macros' = unexpanded_macros
\* What queueing the handled call does: no scope changes and one directive
\* more, with this path and this legacy macro.
QueuedAs(path, legacy) ==
    /\ modules' = modules
    /\ Len(unexpanded_macros') = Len(unexpanded_macros) + 1
    /\ SubSeq(unexpanded_macros', 1, Len(unexpanded_macros)) = unexpanded_macros
    /\ unexpanded_macros'[Len(unexpanded_macros')].module_id = Handled.module
    /\ unexpanded_macros'[Len(unexpanded_macros')].path = path
    /\ unexpanded_macros'[Len(unexpanded_macros')].legacy = legacy

\* C31: the step that handles a macro item treats it by the first case that
\* applies: (0) flagged builtin with a recognised name: defined as a builtin
\* macro, nothing queued; (1) path macro_rules: defined in the legacy scope
\* when named, and in the root's scope when exported, nothing queued; (2) a
\* bare name the module's legacy scope binds: queued with that macro as its
\* legacy call, path unchanged; (3) otherwise queued for path resolution, a
\* bare name rewritten to self::name.
ClassifiedInOrder ==
    [][HandlesMacro =>
          IF WrittenBuiltin THEN DefinedAs("builtin")
          ELSE IF WrittenRules
          THEN IF Handled.name # NoName THEN DefinedAs("macro")
               ELSE modules' = modules /\ unexpanded_macros' = unexpanded_macros
          ELSE IF WrittenIdent
                  /\ modules[Handled.module].legacy_macros[Handled.import.path.segments[1]]
                         # None
          THEN QueuedAs(Handled.import.path,
                        modules[Handled.module].legacy_macros[Handled.import.path.segments[1]])
          ELSE QueuedAs(IF WrittenIdent THEN Path("Self", Handled.import.path.segments)
                        ELSE Handled.import.path, None)]_vars

\* A crate was collected with an item of each case: a flagged
\* `macro_rules! b` defined as a builtin, a flagged macro_rules! of an
\* unrecognised name defined as a declarative macro, and a call b!() bound to
\* the legacy macro.
ClassifiedInOrderWitness ==
    /\ \E j \in 1..Len(input) :
           /\ input[j].op = "builtin"
           /\ input[j].import.path = Path("Plain", <<"macro_rules">>)
    /\ \E j \in 1..Len(input) :
           input[j].op = "rules" /\ input[j].builtin /\ input[j].name = "a"
    /\ \E k \in 1..Len(unexpanded_macros) : unexpanded_macros[k].legacy # None


\* Whether a pending macro directive resolves in the state: it carries a
\* legacy call, or its path names a macro from its module.
MacroLeaves(directive) ==
    \/ directive.legacy # None
    \/ ResolvePathFpWithMacro(CS, directive.module_id, directive.path).resolved_def.macros
           # None
MacroStays(directive) == ~MacroLeaves(directive)
\* The calls queued for expansion are those of the directives, in order.
CallsOf(calls, list) ==
    /\ Len(calls) >= Len(list)
    /\ \A k \in 1..Len(list) :
           /\ calls[k].ast_id = list[k].ast_id
           /\ calls[k].module_id = list[k].module_id

\* C32: a macro directive leaves the pending set exactly when it resolves:
\* the pass of resolve_macros keeps the directives without a legacy call
\* whose path names no macro and queues every other one, once, for
\* expansion; a queued call leaves the queue only by the start of its
\* expansion in its module, the pass ends only with the queue empty, no
\* other step takes a directive out of the pending set, and a directive that
\* enters it has a new id.
DirectiveLeavesWhenResolved ==
    [][/\ (pc = "macros" /\ pc' = "expand") =>
              /\ unexpanded_macros' = SelectSeq(unexpanded_macros, MacroStays)
              /\ CallsOf(resolved', SelectSeq(unexpanded_macros, MacroLeaves))
              /\ Len(resolved') = Len(SelectSeq(unexpanded_macros, MacroLeaves))
                                      + Len(SelectSeq(unexpanded_attribute_macros, Resolvable))
       /\ (pc = "expand" /\ resolved # <<>>) =>
              /\ resolved' = Tail(resolved)
              /\ pc' = "collect_expansion"
              /\ Len(stack') = 1
              /\ stack'[1].module_id = Head(resolved).module_id
              /\ stack'[1].len = 0
       /\ (pc = "expand" /\ pc' # "collect_expansion") => resolved = <<>>
       /\ pc # "macros" =>
              /\ AstIds(unexpanded_macros) \subseteq AstIds(unexpanded_macros')
              /\ \A id \in AstIds(unexpanded_macros') \ AstIds(unexpanded_macros) :
                     id > n_calls
       /\ pc \notin {"macros", "expand"} => resolved' = resolved]_vars

\* In a later pass of resolve_macros a call written as the crate's first
\* item, which no legacy scope could resolve, has left the pending set for a
\* macro_rules! macro defined by an expansion, while another call stays.
DirectiveLeavesWhenResolvedWitness ==
    /\ pc = "expand"
    /\ i >= 1
    /\ resolved # <<>>
    /\ input[1].op = "call"
    /\ Head(resolved).ast_id = input[1].ent.id
    /\ Head(resolved).macro.k = "macro"


\* The directive a step queues, when it handles a call.
HandlesCall == HandlesItem /\ Handled.op = "call"
Queued == unexpanded_macros'[Len(unexpanded_macros')]

\* C33: a call resolved through the legacy scope is bound when it is
\* collected: the directive queued for a bare name the module's legacy scope
\* binds carries the macro bound at that moment; no later step, a
\* redefinition of the name included, changes a pending directive; and
\* resolve_macros queues the call for expansion with the macro the directive
\* carries, which the start of the expansion leaves as it is.
LegacyBoundAtCollection ==
    [][/\ (HandlesCall /\ WrittenIdent
              /\ modules[Handled.module].legacy_macros[Handled.import.path.segments[1]]
                     # None) =>
              Queued.legacy =
                  modules[Handled.module].legacy_macros[Handled.import.path.segments[1]]
       /\ pc # "macros" =>
              /\ Len(unexpanded_macros') >= Len(unexpanded_macros)
              /\ SubSeq(unexpanded_macros', 1, Len(unexpanded_macros)) = unexpanded_macros
       /\ (pc = "macros" /\ pc' = "expand") =>
              \A k \in 1..Len(unexpanded_macros) :
                  unexpanded_macros[k].legacy # None =>
                      /\ \E j \in 1..Len(resolved') :
                             resolved'[j].ast_id = unexpanded_macros[k].ast_id
                      /\ \A j \in 1..Len(resolved') :
                             resolved'[j].ast_id = unexpanded_macros[k].ast_id =>
                                 resolved'[j].macro = unexpanded_macros[k].legacy
       /\ (pc = "expand" /\ resolved # <<>>) => resolved' = Tail(resolved)]_vars

\* A call is about to be expanded with a macro_rules! macro that was never
\* exported, so that only the legacy scope could resolve the call, while its
\* module's legacy scope binds the name to a macro defined later.
LegacyBoundAtCollectionWitness ==
    /\ pc = "expand"
    /\ resolved # <<>>
    /\ Head(resolved).macro.k = "macro"
    /\ \E j \in 1..Len(input) :
           /\ input[j].op = "rules"
           /\ input[j].ent = Head(resolved).macro
           /\ ~input[j].export
    /\ modules[Head(resolved).module_id].legacy_macros["b"].k = "macro"
    /\ modules[Head(resolved).module_id].legacy_macros["b"].id > Head(resolved).macro.id


\* A pass of resolve_macros is expanding what it resolved.
InPass == pc \in {"expand", "collect_expansion"}
\* The ids of the macro directives a step creates.
NewCalls == AstIds(unexpanded_macros') \ AstIds(unexpanded_macros)

\* C34: the directives created while the calls resolved in one pass of
\* resolve_macros are expanded extend the pending lists and are not
\* attempted in that pass: during the pass the pending imports and macros
\* only grow at their ends, no import is resolved, the calls queued for
\* expansion only shrink and hold no directive created in the pass; the
\* next attempt is the next outer iteration's.
CreatedInPassWaits ==
    [][InPass =>
          /\ Len(unresolved_imports') >= Len(unresolved_imports)
          /\ SubSeq(unresolved_imports', 1, Len(unresolved_imports)) = unresolved_imports
          /\ Len(unexpanded_macros') >= Len(unexpanded_macros)
          /\ SubSeq(unexpanded_macros', 1, Len(unexpanded_macros)) = unexpanded_macros
          /\ resolved_imports' = resolved_imports
          /\ resolved' \in {resolved, Tail(IF resolved = <<>> THEN <<0>> ELSE resolved)}
          /\ NewCalls \cap (AstIds(resolved) \cup AstIds(resolved')) = {}
          /\ (pc' \notin {"expand", "collect_expansion", "panicked"}) =>
                 /\ resolved = <<>>
                 /\ UNCHANGED directives
                 /\ pc' \in {"loop", "post"}]_vars

\* A pass ends with an import and a call pending that an expansion of the
\* pass wrote, the call of a name its module's legacy scope bound: it would
\* have resolved had the pass attempted it.
CreatedInPassWaitsWitness ==
    /\ pc = "expand"
    /\ resolved = <<>>
    /\ \E k \in 1..Len(unexpanded_macros) :
           /\ unexpanded_macros[k].legacy # None
           /\ \E j \in (exps.start + 1)..Len(input) :
                  input[j].op = "call" /\ input[j].ent.id = unexpanded_macros[k].ast_id
    /\ \E k \in 1..Len(unresolved_imports) :
           \E j \in (exps.start + 1)..Len(input) :
               input[j].op = "import" /\ input[j].ent.id = unresolved_imports[k].import_id


\* C35: the glob closure: unless collection panicked inside an update, for
\* every recorded glob edge from a source onto an importing module, every
\* namespace slot set under a name in the source's scope is set under that
\* name in the importing module's scope, to the same or to another entity.
GlobClosure ==
    pc # "panicked" =>
        \A source \in 1..Len(glob_imports) : \A k \in 1..Len(glob_imports[source]) :
            \A n \in AllNames : \A ns \in Namespaces :
                Slot(modules[source].items[n].def, ns) # None =>
                    Slot(modules[glob_imports[source][k][1]].items[n].def, ns) # None

\* Collection finished with a glob edge whose importing module binds a name
\* to another entity than the source does.
GlobClosureWitness ==
    /\ pc = "done"
    /\ \E source \in 1..Len(glob_imports) : \E k \in 1..Len(glob_imports[source]) :
           \E n \in AllNames : \E ns \in Namespaces :
               /\ Slot(modules[source].items[n].def, ns) # None
               /\ Slot(modules[glob_imports[source][k][1]].items[n].def, ns)
                      # Slot(modules[source].items[n].def, ns)


\* The run of one top-level update, invocation by invocation: the modules in
\* which an invocation set a slot, in order, the number of invocations made,
\* and what update leaves.  The run is followed for limit invocations.
RECURSIVE UpdateRun(_, _, _, _, _)
UpdateRunNext(st, next, resolutions, changed, steps, limit) ==
    UpdateRun(next, resolutions,
              IF SlotsSet(st.cs, next.cs, Head(st.calls).module_id)
              THEN Append(changed, Head(st.calls).module_id) ELSE changed,
              steps + 1, limit)
UpdateRun(st, resolutions, changed, steps, limit) ==
    IF st.calls = <<>> \/ steps >= limit
    THEN [changed |-> changed, steps |-> steps, ended |-> st.calls = <<>>, cs |-> st.cs]
    ELSE UpdateRunNext(st, UpdateRecursiveBody(st, resolutions), resolutions,
                       changed, steps, limit)
\* The number of glob edges recorded.
RECURSIVE GlobEdgeCount(_)
GlobEdgeCount(m) ==
    IF m = 0 THEN 0 ELSE Len(glob_imports[m]) + GlobEdgeCount(m - 1)
UpdateRunOf(target, batch) ==
    UpdateRun([cs |-> CS, calls |-> <<Invocation(target, NoImport, 0)>>], batch, <<>>, 0,
              GlobEdgeCount(Len(glob_imports)) + 2)
ChangesOnce(run) ==
    /\ run.ended
    /\ \A j \in 1..Len(run.changed) : \A k \in 1..Len(run.changed) :
           run.changed[j] = run.changed[k] => j = k
    /\ run.steps <= GlobEdgeCount(Len(glob_imports)) + 1
    /\ run.cs.deepest <= Len(modules)

\* C36: a top-level update comes to an end on every graph of glob edges,
\* cyclic ones included: no module has a slot set by more than one
\* invocation of the run, so that the run makes at most one invocation more
\* than there are glob edges, and no invocation is deeper than the crate has
\* modules.
UpdateEndsOnCycles ==
    \A target \in 1..Len(modules) : \A batch \in Batches :
        ChangesOnce(UpdateRunOf(target, batch))

\* An update of a module on a cycle of glob edges sets a slot in two modules
\* and comes back to a module with the same batch, which sets nothing there.
UpdateEndsOnCyclesWitness ==
    \E target \in 1..Len(modules) : \E batch \in Batches :
        /\ OnGlobCycle(target)
        /\ Len(UpdateRunOf(target, batch).changed) >= 2
        /\ UpdateRunOf(target, batch).steps > Len(UpdateRunOf(target, batch).changed)


\* Crates on the dependency, which exposes its module 2 as prelude or none:
\* macro_rules! a and b, calls of them, one inline module, and
\* `#[prelude_import] use dep::*`.
MaxItemsOverlay == 4
NextOverlay ==
    \/ \E exposes \in BOOLEAN :
           /\ Len(deps) < 1
           /\ SeedDependency(Dependency(DepName, CrateRoot(1),
                                        IF exposes THEN CratePrelude(1) ELSE None))
    \/ Len(deps) = 1 /\ EndSeed
    \/ StartCollect(NoHoist)
    \/ /\ n_items < MaxItemsOverlay /\ Len(modules) < 2
       /\ CollectModule("a", FALSE, NoHoist)
    \/ /\ n_items < MaxItemsOverlay
       /\ CollectImport(PreludeImport(Path("Plain", <<DepName>>)))
    \/ \E name \in Names : n_items < MaxItemsOverlay /\ CollectMacroRules(MacroRules(name, FALSE))
    \/ \E name \in Names :
           /\ n_items < MaxItemsOverlay
           /\ CollectMacroCall(MacroCall(Path("Plain", <<name>>)))
    \/ ExpandMacro(NoHoist)
    \/ Driver
SpecOverlay == InitSeed /\ [][NextOverlay]_vars

\* The module on which a step starts ModCollector::collect, 0 if it starts
\* none: the root, the child of a module item, the module of a call expanded.
CollectStarted ==
    IF pc = "start" /\ pc' # "start" THEN Root
    ELSE IF HandlesItem /\ Handled.op = "module" THEN Handled.ent.id
    ELSE IF pc = "expand" /\ pc' = "collect_expansion" THEN Head(resolved).module_id
    ELSE 0
\* The legacy scope the module has when collect starts: its own, or for a
\* child just allocated the copy of its parent's.
LegacyAtStart ==
    IF CollectStarted <= Len(modules) THEN modules[CollectStarted].legacy_macros
    ELSE modules[Handled.module].legacy_macros
DepRootMacro(n) == DepItems(DepRoot)[n].def.macros

\* C37: every start of ModCollector::collect on a module, for the root, for
\* a child module and for every expansion, while the prelude is a module of
\* another crate, leaves the module's legacy scope binding every macro of
\* that crate's root scope under its name, whatever the scope bound there,
\* and the other names as they were, with no item of the list handled yet;
\* without such a prelude the start leaves the legacy scope as it was.
PreludeMacrosOverlaid ==
    [][CollectStarted # 0 =>
          /\ \A n \in AllNames :
                 modules'[CollectStarted].legacy_macros[n] =
                     IF prelude.k = "xmodule" /\ DepRootMacro(n) # None
                     THEN DepRootMacro(n) ELSE LegacyAtStart[n]
          /\ stack'[Len(stack')].module_id = CollectStarted
          /\ stack'[Len(stack')].len = 0
          /\ UNCHANGED <<directives, prelude>>]_vars

\* The collect of an expansion has started in a module that defined a
\* macro_rules! b itself, and the module's legacy scope binds b to the macro
\* of the prelude's crate.
PreludeMacrosOverlaidWitness ==
    /\ pc = "collect_expansion"
    /\ Len(stack) = 1
    /\ Top.len = 0
    /\ prelude.k = "xmodule"
    /\ modules[Top.module_id].legacy_macros["b"] = DepRootMacro("b")
    /\ \E j \in 1..Len(input) :
           /\ input[j].op = "rules"
           /\ input[j].module = Top.module_id
           /\ input[j].name = "b"


\* Crates of `#[macro_export] macro_rules! b`, a plain macro_rules! a, calls
\* of a, `use dep::b` and one inline module; an expansion can hold the same
\* items, so that b can be exported after the import has resolved.
MaxItemsExported == 5
NextExported ==
    \/ StartCollect(NoHoist)
    \/ /\ n_items < MaxItemsExported /\ Len(modules) < 2
       /\ CollectModule("a", FALSE, NoHoist)
    \/ /\ n_items < MaxItemsExported /\ n_imports = 0
       /\ CollectImport(Use(Path("Plain", <<DepName, "b">>)))
    \/ n_items < MaxItemsExported /\ CollectMacroRules(MacroRules("b", TRUE))
    \/ /\ n_items < MaxItemsExported /\ pc = "collect_root"
       /\ CollectMacroRules(MacroRules("a", FALSE))
    \/ /\ n_items < MaxItemsExported /\ n_calls = 0
       /\ CollectMacroCall(MacroCall(Path("Plain", <<"a">>)))
    \/ ExpandMacro(NoHoist)
    \/ Driver
SpecExported == Init /\ [][NextExported]_vars

\* The #[macro_export] macro_rules! items of a name handled so far, and the
\* first of them.
ExportedRules(n) ==
    {j \in 1..Len(input) : input[j].op = "rules" /\ input[j].export /\ input[j].name = n}
FirstExported(n) == CHOOSE j \in ExportedRules(n) : \A k \in ExportedRules(n) : j <= k

\* C38 as stated: once two #[macro_export] macro_rules! of one name were
\* collected, the root's path scope binds the name to the first of them.
RootKeepsFirstExported ==
    \A n \in Names :
        Cardinality(ExportedRules(n)) >= 2 =>
            modules[Root].items[n].def.macros = input[FirstExported(n)].ent

\* C38, amended: the step that handles a #[macro_export] macro_rules! named
\* n after another one leaves the defining module's legacy scope binding n
\* to the macro just defined and the root's path scope binding n to the
\* macro it bound before, which is not the one just defined; the root's
\* macro slot, once set, never changes, and it was set at the latest by the
\* first exported definition: to that macro if the slot was empty then.
ExportedTwiceScopesDiffer ==
    [][/\ (HandlesRules /\ Handled.export) =>
              /\ modules'[Handled.module].legacy_macros[Handled.name] = Handled.ent
              /\ modules'[Root].items[Handled.name].def.macros =
                     IF modules[Root].items[Handled.name].def.macros # None
                     THEN modules[Root].items[Handled.name].def.macros
                     ELSE Handled.ent
              /\ ExportedRules(Handled.name) # {} =>
                     /\ modules[Root].items[Handled.name].def.macros # None
                     /\ modules'[Root].items[Handled.name].def.macros # Handled.ent
                     /\ modules'[Root].items[Handled.name].def.macros
                            # modules'[Handled.module].legacy_macros[Handled.name]
       /\ \A n \in AllNames :
              modules[Root].items[n].def.macros # None =>
                  modules'[Root].items[n].def.macros = modules[Root].items[n].def.macros]_vars

\* Two exported macro_rules! b were collected in one module: the root's path
\* scope binds b to the first and the module's legacy scope to the second.
ExportedTwiceScopesDifferWitness ==
    /\ Cardinality(ExportedRules("b")) = 2
    /\ \E j \in ExportedRules("b") : \E k \in ExportedRules("b") :
           /\ j < k
           /\ input[j].module = input[k].module
           /\ modules[Root].items["b"].def.macros = input[j].ent
           /\ modules[input[k].module].legacy_macros["b"] = input[k].ent


\* The step handles a module item whose child was allocated.
HandlesModule == HandlesItem /\ Handled.op = "module"
\* The module items of a name in a parent handled so far, and the first.
ModuleItems(parent, n) ==
    {j \in 1..Len(input) :
         input[j].op = "module" /\ input[j].module = parent /\ input[j].name = n}
FirstModule(parent, n) ==
    CHOOSE j \in ModuleItems(parent, n) : \A k \in ModuleItems(parent, n) : j <= k

\* C39 as stated: once a module declared two child modules of one name, its
\* scope binds the name in the type namespace to the child created first.
ScopeKeepsFirstChild ==
    \A parent \in 1..Len(modules) : \A n \in Names :
        Cardinality(ModuleItems(parent, n)) >= 2 =>
            modules[parent].items[n].def.types = input[FirstModule(parent, n)].ent

\* C39, amended: the step that handles a child module named n allocates it
\* with the declaring module as parent and points the parent's children map
\* under n at it; the parent's scope binds n in the type namespace to what
\* it bound before, to the new child if the slot was empty.  When the parent
\* already had a child named n, that child keeps its parent, the slot was
\* set and keeps its entity, and the children map and the scope disagree.
\* A type slot, once set, never changes.
SameNameChildrenDisagree ==
    [][/\ HandlesModule =>
              /\ Handled.ent = LocalModule(Len(modules) + 1)
              /\ Len(modules') = Len(modules) + 1
              /\ modules'[Handled.ent.id].parent = Handled.module
              /\ modules'[Handled.module].children[Handled.name] = Handled.ent.id
              /\ modules'[Handled.module].items[Handled.name].def.types =
                     IF modules[Handled.module].items[Handled.name].def.types # None
                     THEN modules[Handled.module].items[Handled.name].def.types
                     ELSE Handled.ent
              /\ modules[Handled.module].children[Handled.name] # 0 =>
                     /\ modules'[modules[Handled.module].children[Handled.name]].parent
                            = Handled.module
                     /\ modules[Handled.module].items[Handled.name].def.types # None
                     /\ modules'[Handled.module].items[Handled.name].def.types
                            # LocalModule(modules'[Handled.module].children[Handled.name])
       /\ \A m \in 1..Len(modules) : \A n \in AllNames :
              modules[m].items[n].def.types # None =>
                  modules'[m].items[n].def.types = modules[m].items[n].def.types]_vars

\* A module declared two child modules of one name: both have it as parent,
\* its children map points at the second and its scope binds the name to the
\* first.
SameNameChildrenDisagreeWitness ==
    \E parent \in 1..Len(modules) : \E n \in Names :
        \E j \in ModuleItems(parent, n) : \E k \in ModuleItems(parent, n) :
            /\ j < k
            /\ modules[input[j].ent.id].parent = parent
            /\ modules[input[k].ent.id].parent = parent
            /\ modules[parent].children[n] = input[k].ent.id
            /\ modules[parent].items[n].def.types = input[j].ent


\* The modules that a pending or resolved macro directive belongs to.
DirectiveModules ==
    {unexpanded_macros[k].module_id : k \in 1..Len(unexpanded_macros)}
        \cup {unexpanded_attribute_macros[k].module_id :
                  k \in 1..Len(unexpanded_attribute_macros)}
        \cup {resolved[k].module_id : k \in 1..Len(resolved)}

\* C40: every module a macro directive belongs to, pending or resolved, has
\* its entry in mod_dirs, written when collect started on the module, and no
\* entry is ever removed; so the step that starts the expansion of a
\* resolved call finds the entry of the call's module and does not panic.
ModDirsFound ==
    [][/\ mod_dirs \subseteq mod_dirs'
       /\ DirectiveModules' \subseteq mod_dirs'
       /\ CollectStarted # 0 => CollectStarted \in mod_dirs'
       /\ (pc = "expand" /\ resolved # <<>>) =>
              /\ Head(resolved).module_id \in mod_dirs
              /\ pc' = "collect_expansion"]_vars

\* The expansion of a call written in a child module has started: the lookup
\* of the child's entry succeeded.
ModDirsFoundWitness ==
    /\ pc = "collect_expansion"
    /\ Len(stack) = 1
    /\ Top.module_id # Root
    /\ Top.module_id \in mod_dirs

\* Crates of one inline module, glob imports of it and of the parent, one
\* function, and one exported macro whose expansion can add items late.
MaxItemsGlobs == 5
GlobsImports == { UseGlob(Path("Plain", <<"a">>)), UseGlob(Path("Super", <<>>)) }
NextGlobs ==
    \/ StartCollect(NoHoist)
    \/ n_items < MaxItemsGlobs /\ CollectDef("a", "fn")
    \/ \E import \in GlobsImports : n_items < MaxItemsGlobs /\ CollectImport(import)
    \/ /\ n_items < MaxItemsGlobs /\ Len(modules) < 2
       /\ CollectModule("a", FALSE, NoHoist)
    \/ \E mac \in ScopesMacros : n_items < MaxItemsGlobs /\ CollectMacroRules(mac)
    \/ \E mac \in ScopesCalls : n_items < MaxItemsGlobs /\ CollectMacroCall(mac)
    \/ ExpandMacro(NoHoist)
    \/ Driver
SpecGlobs == Init /\ [][NextGlobs]_vars

\* Crates of macro_rules! b, calls of it and imports naming it, in the root
\* and in one #[macro_use] module, collected over several passes of the
\* resolution loop.
MaxItemsPasses == 4
PassesImports == { Use(Path("Plain", <<"b">>)), Use(Path("Crate", <<"b">>)) }
NextPasses ==
    \/ StartCollect(NoHoist)
    \/ \E import \in PassesImports : n_items < MaxItemsPasses /\ CollectImport(import)
    \/ /\ n_items < MaxItemsPasses /\ Len(modules) < 2
       /\ CollectModule("a", TRUE, NoHoist)
    \/ n_items < MaxItemsPasses /\ CollectMacroRules(MacroRules("b", FALSE))
    \/ \E mac \in ScopesCalls : n_items < MaxItemsPasses /\ CollectMacroCall(mac)
    \/ ExpandMacro(NoHoist)
    \/ Driver
SpecPasses == Init /\ [][NextPasses]_vars

====
